---- MODULE Spec2Model ----
(***************************************************************************)
(* One Piece IoT backend: Alexa skill + Express REST API over a MySQL      *)
(* store of sensor readings.                                               *)
(*                                                                         *)
(* A JavaScript string is a sequence of one-character strings; the value   *)
(* undefined (an absent slot) is the one-element sequence Undefined, whose *)
(* element is not a character.                                             *)
(***************************************************************************)
EXTENDS Integers, Sequences, FiniteSets, Bags, TLC

VARIABLES
  list,        \* findIdByName's first argument (resolver harness)
  spokenName,  \* findIdByName's second argument (resolver harness)
  called,      \* whether the harness has called findIdByName
  result,      \* what findIdByName returned
  normed,      \* what norm returned, call after call (normalizer harness)
  rev,         \* which revision of the server is running
  readings,    \* the rows of table readings
  nextId,      \* the AUTO_INCREMENT counter of readings.reading_id
  reqs,        \* per client: the request in flight and its response
  routes       \* the statements of routes whose caller has given up waiting (a bag)

vars == <<list, spokenName, called, result, normed, rev, readings, nextId, reqs, routes>>
resolverVars == <<list, spokenName, called, result, normed>>
serverVars == <<rev, readings, nextId, reqs, routes>>

----------------------------------------------------------------------------
(* Bounds of the model *)

MaxListLen == 2      \* longest reference list given to the resolver harness
MaxPhraseLen == 3    \* longest spoken phrase given to the resolver harness
MaxNormLen == 4      \* longest string given to the normalizer harness
MaxId == 2           \* inserts stop once AUTO_INCREMENT has passed this id
MaxPending == 2      \* routes at most that go on after their caller gave up

----------------------------------------------------------------------------
(* Characters and strings *)

Undefined == <<"undefined">>

UpperLetters == <<"A","B","C","D","E","F","G","H","I","J","K","L","M",
                  "N","O","P","Q","R","S","T","U","V","W","X","Y","Z">>
LowerLetters == <<"a","b","c","d","e","f","g","h","i","j","k","l","m",
                  "n","o","p","q","r","s","t","u","v","w","x","y","z">>
DigitChars == <<"0","1","2","3","4","5","6","7","8","9">>

Range(f) == {f[i] : i \in DOMAIN f}

\* String.prototype.toLowerCase, one character (ASCII letters; every other
\* character of the model's alphabets is its own lower case)
LowerChar(c) ==
  IF \E i \in DOMAIN UpperLetters : UpperLetters[i] = c
  THEN LowerLetters[CHOOSE i \in DOMAIN UpperLetters : UpperLetters[i] = c]
  ELSE c

toLowerCase(s) == [i \in DOMAIN s |-> LowerChar(s[i])]

\* the complement of the character class [^a-z0-9 ]
IsKept(c) == c \in Range(LowerLetters) \cup Range(DigitChars) \cup {" "}

\* the character class \s, over the model's alphabets
IsWhitespace(c) == c \in {" ", "\t", "\n"}

\* .replace(/[^a-z0-9 ]/g, '')
StripOther(s) == SelectSeq(s, IsKept)

RECURSIVE SkipWhitespace(_)
SkipWhitespace(s) ==
  IF s # <<>> /\ IsWhitespace(Head(s)) THEN SkipWhitespace(Tail(s)) ELSE s

\* .replace(/\s+/g, ' ')
RECURSIVE CollapseWhitespace(_)
CollapseWhitespace(s) ==
  IF s = <<>> THEN <<>>
  ELSE IF IsWhitespace(Head(s))
       THEN <<" ">> \o CollapseWhitespace(SkipWhitespace(s))
       ELSE <<Head(s)>> \o CollapseWhitespace(Tail(s))

RECURSIVE DropTrailingWhitespace(_)
DropTrailingWhitespace(s) ==
  IF s # <<>> /\ IsWhitespace(s[Len(s)])
  THEN DropTrailingWhitespace(SubSeq(s, 1, Len(s) - 1))
  ELSE s

\* .trim()
trim(s) == DropTrailingWhitespace(SkipWhitespace(s))

\* String(s || '')
StringOrEmpty(s) == IF s = Undefined THEN <<>> ELSE s

norm_TrimFirst(s) ==
  CollapseWhitespace(StripOther(trim(toLowerCase(StringOrEmpty(s)))))

norm_NoTrim(s) == CollapseWhitespace(StripOther(toLowerCase(StringOrEmpty(s))))

norm(s) == trim(CollapseWhitespace(StripOther(toLowerCase(StringOrEmpty(s)))))

\* String.prototype.includes
includes(hay, needle) ==
  \E i \in 0..(Len(hay) - Len(needle)) : SubSeq(hay, i + 1, i + Len(needle)) = needle

----------------------------------------------------------------------------
(* Name resolver *)

\* JavaScript null, as an identifier no row carries
Null == -1

\* Array.prototype.find, as the index of the first element that passes (0: none)
FirstIndex(l, Test(_)) ==
  IF \E i \in DOMAIN l : Test(l[i])
  THEN CHOOSE i \in DOMAIN l : Test(l[i]) /\ \A j \in 1..(i - 1) : ~Test(l[j])
  ELSE 0

findIdByName_PartialOnly(l, spoken) ==
  LET target == norm(spoken)
      Partial(x) == includes(norm(x.name), target) \/ includes(target, norm(x.name))
      partial == FirstIndex(l, Partial)
  IN  IF target = <<>> THEN Null
      ELSE IF partial # 0 THEN l[partial].id
      ELSE Null

findIdByName_OneWay(l, spoken) ==
  LET target == norm(spoken)
      Exact(x) == norm(x.name) = target
      Partial(x) == includes(norm(x.name), target)
      exact == FirstIndex(l, Exact)
      partial == FirstIndex(l, Partial)
  IN  IF target = <<>> THEN Null
      ELSE IF exact # 0 THEN l[exact].id
      ELSE IF partial # 0 THEN l[partial].id
      ELSE Null

findIdByName_NoGuard(l, spoken) ==
  LET target == norm(spoken)
      Exact(x) == norm(x.name) = target
      Partial(x) == includes(norm(x.name), target) \/ includes(target, norm(x.name))
      exact == FirstIndex(l, Exact)
      partial == FirstIndex(l, Partial)
  IN  IF exact # 0 THEN l[exact].id
      ELSE IF partial # 0 THEN l[partial].id
      ELSE Null

findIdByName_FirstAsDefault(l, spoken) ==
  LET target == norm(spoken)
      Exact(x) == norm(x.name) = target
      Partial(x) == includes(norm(x.name), target) \/ includes(target, norm(x.name))
      exact == FirstIndex(l, Exact)
      partial == FirstIndex(l, Partial)
  IN  IF target = <<>> THEN Null
      ELSE IF exact # 0 THEN l[exact].id
      ELSE IF partial # 0 THEN l[partial].id
      ELSE IF l # <<>> THEN l[1].id
      ELSE Null

findIdByName(l, spoken) ==
  LET target == norm(spoken)
      Exact(x) == norm(x.name) = target
      Partial(x) == includes(norm(x.name), target) \/ includes(target, norm(x.name))
      exact == FirstIndex(l, Exact)
      partial == FirstIndex(l, Partial)
  IN  IF target = <<>> THEN Null
      ELSE IF exact # 0 THEN l[exact].id
      ELSE IF partial # 0 THEN l[partial].id
      ELSE Null

----------------------------------------------------------------------------
(* Reference data *)

ISLANDS ==
  << [id |-> 1, name |-> <<"E","a","s","t"," ","B","l","u","e">>],
     [id |-> 2, name |-> <<"A","l","a","b","a","s","t","a">>] >>

CHARACTERS ==
  << [id |-> 1, name |-> <<"L","u","f","f","y">>],
     [id |-> 2, name |-> <<"Z","o","r","o">>],
     [id |-> 3, name |-> <<"N","a","m","i">>] >>

\* the rows of tables islands and characters, as GET /islands and
\* GET /characters select them (ORDER BY id); the hard-coded lists are
\* written to match them
IslandRows == ISLANDS
CharacterRows == CHARACTERS

\* the list a handler resolves island names against: the hard-coded list, or
\* the rows fetched from GET /islands
IslandList(r) == IF r = "integrated" THEN ISLANDS ELSE IslandRows
CharacterList(r) == IF r = "integrated" THEN CHARACTERS ELSE CharacterRows

NameOfId(rows, id) == rows[CHOOSE i \in DOMAIN rows : rows[i].id = id].name

----------------------------------------------------------------------------
(* JavaScript numbers *)

Num(n) == [kind |-> "int", val |-> n]
NaN == [kind |-> "nan", val |-> 0]

isFinite(x) == x.kind \in {"int", "frac"}
isInteger(x) == x.kind = "int"

DigitValue(c) == (CHOOSE i \in DOMAIN DigitChars : DigitChars[i] = c) - 1

RECURSIVE DigitsValue(_)
DigitsValue(s) ==
  IF s = <<>> THEN 0
  ELSE 10 * DigitsValue(SubSeq(s, 1, Len(s) - 1)) + DigitValue(s[Len(s)])

\* Number(s) of a string: a string of decimal digits gives its value, the
\* empty string 0, any other string of the model NaN
StringToNumber(s) ==
  IF \A i \in DOMAIN s : s[i] \in Range(DigitChars) THEN Num(DigitsValue(s)) ELSE NaN

\* Number(v ?? 0) of a slot value (a string, or undefined)
NumberOrZero(v) == IF v = Undefined THEN Num(0) ELSE StringToNumber(v)

\* the values a field of a JSON request body may hold
JsUndefined == [t |-> "undefined", n |-> NaN, s |-> <<>>]
JsNull == [t |-> "null", n |-> NaN, s |-> <<>>]
JsNumber(n) == [t |-> "number", n |-> Num(n), s |-> <<>>]
JsString(s) == [t |-> "string", n |-> NaN, s |-> s]

\* Number(v) of a body field
ToNumber(v) ==
  IF v.t = "undefined" THEN NaN
  ELSE IF v.t = "null" THEN Num(0)
  ELSE IF v.t = "number" THEN v.n
  ELSE StringToNumber(v.s)

\* !id of a resolved identifier: null and 0 are falsy
Falsy(id) == id = Null \/ id = 0

----------------------------------------------------------------------------
(* The store: table readings *)

MaxReadingId(rs) == CHOOSE m \in {r.reading_id : r \in rs} : \A r \in rs : r.reading_id <= m

JoinedRow_CrossedJoin(r) ==
  [reading_id |-> r.reading_id,
   ultrasonic_value |-> r.ultrasonic_value,
   lidar_value |-> r.lidar_value,
   island_id |-> r.island_id,
   character_id |-> r.character_id,
   island_name |-> NameOfId(IslandRows, r.island_id),
   character_name |-> NameOfId(CharacterRows, r.island_id)]

JoinedRow(r) ==
  [reading_id |-> r.reading_id,
   ultrasonic_value |-> r.ultrasonic_value,
   lidar_value |-> r.lidar_value,
   island_id |-> r.island_id,
   character_id |-> r.character_id,
   island_name |-> NameOfId(IslandRows, r.island_id),
   character_name |-> NameOfId(CharacterRows, r.character_id)]

\* the rows of readings that INNER JOIN islands and characters keeps
Joinable(rs) ==
  {r \in rs : /\ \E i \in DOMAIN IslandRows : IslandRows[i].id = r.island_id
              /\ \E i \in DOMAIN CharacterRows : CharacterRows[i].id = r.character_id}

SelectLatestJoined_Ascending(rs) ==
  LET kept == Joinable(rs)
  IN  IF kept = {} THEN <<>>
      ELSE << JoinedRow(CHOOSE r \in kept : \A s \in kept : r.reading_id <= s.reading_id) >>

SelectLatestJoined_ByIsland(rs) ==
  LET kept == Joinable(rs)
  IN  IF kept = {} THEN <<>>
      ELSE << JoinedRow(CHOOSE r \in kept : \A s \in kept : s.island_id <= r.island_id) >>

\* SELECT ... FROM readings r INNER JOIN islands i ... INNER JOIN characters c ...
\* ORDER BY r.reading_id DESC LIMIT 1
SelectLatestJoined(rs) ==
  LET kept == Joinable(rs)
  IN  IF kept = {} THEN <<>>
      ELSE << JoinedRow(CHOOSE r \in kept : \A s \in kept : s.reading_id <= r.reading_id) >>

SelectLatestId_Ascending(rs) ==
  IF rs = {} THEN <<>>
  ELSE << [reading_id |->
             CHOOSE m \in {r.reading_id : r \in rs} : \A r \in rs : m <= r.reading_id] >>

\* SELECT reading_id FROM readings ORDER BY reading_id DESC LIMIT 1
SelectLatestId(rs) ==
  IF rs = {} THEN <<>> ELSE << [reading_id |-> MaxReadingId(rs)] >>

\* the rows the handler of revision r gets for "the latest reading": the
\* integrated server's update and delete handlers select the identifier alone,
\* every other handler the joined row (directly, or through GET /latestReading
\* and getLatest)
LatestRows(r, op, rs) ==
  IF r = "integrated" /\ op \in {"update", "delete"}
  THEN SelectLatestId(rs)
  ELSE SelectLatestJoined(rs)

\* the foreign keys of readings: a row references an existing island and an
\* existing character
ForeignKeysHold(isl, chr) ==
  /\ \E i \in DOMAIN IslandRows : IslandRows[i].id = isl
  /\ \E i \in DOMAIN CharacterRows : CharacterRows[i].id = chr

\* INSERT INTO readings (ultrasonic_value, lidar_value, island_id, character_id)
InsertReading(rs, id, us, li, isl, chr) ==
  rs \cup { [reading_id |-> id, ultrasonic_value |-> us, lidar_value |-> li,
             island_id |-> isl, character_id |-> chr] }

UpdateReading_AllRows(rs, id, isl, chr) ==
  { [r EXCEPT !.island_id = isl, !.character_id = chr] : r \in rs }

\* UPDATE readings SET island_id = ?, character_id = ? WHERE reading_id = ?
UpdateReading(rs, id, isl, chr) ==
  { IF r.reading_id = id
    THEN [r EXCEPT !.island_id = isl, !.character_id = chr]
    ELSE r : r \in rs }

DeleteReading_UpTo(rs, id) == {r \in rs : r.reading_id > id}

\* DELETE FROM readings WHERE reading_id = ?
DeleteReading(rs, id) == {r \in rs : r.reading_id # id}

----------------------------------------------------------------------------
(* Voice requests *)

\* the clients whose requests may be in flight at once
Clients == {"c1", "c2"}

\* integrated: src/server.js (handlers query the pool, names resolved against
\*   the hard-coded lists);
\* selfhttp: the first server of src/unnamed/part_000 (handlers call the
\*   server's own REST routes);
\* direct: the second server of src/unnamed/part_000 (launch, query and delete
\*   handlers only, which query the pool and have no try/catch; REST routes);
\* direct_rest: src/unnamed/part_001 (as direct; the query's text is a
\*   template literal with line breaks);
\* skill_only: src/unnamed/part_002 (the skill of part_001, no REST route)
Revisions == {"integrated", "selfhttp", "direct", "direct_rest", "skill_only"}

\* the revisions whose skill registers the launch, query and delete handlers
\* only
DirectRevisions == {"direct", "direct_rest", "skill_only"}

\* the revisions that declare the routes /addReading, /updateReading/:id and
\* /deleteReading/:id
RestRevisions == Revisions \ {"skill_only"}

Lit(text) == <<text>>

NoSlots ==
  [IslandName |-> Undefined, CharacterName |-> Undefined,
   UltrasonicValue |-> Undefined, LidarValue |-> Undefined,
   NewIsland |-> Undefined, NewCharacter |-> Undefined]

NoBody ==
  [ultrasonic_value |-> JsUndefined, lidar_value |-> JsUndefined,
   island_id |-> JsUndefined, character_id |-> JsUndefined]

\* the calls a request has issued to the store (or to the route in front of
\* it), by kind of statement
NoCalls == [select |-> 0, insert |-> 0, update |-> 0, delete |-> 0]

\* a client with no request in flight. A request in flight holds the request
\* (op, slots, body), the handler's local variables, the calls issued, and
\* whether the route the handler called over HTTP has run its statement
\* (applied); a request that is done holds the request, the calls issued and
\* the response.
IdleReq ==
  [op |-> "none", pc |-> "idle", slots |-> NoSlots, body |-> NoBody,
   param |-> Undefined,
   island_id |-> Null, character_id |-> Null,
   ultrasonic_value |-> Num(0), lidar_value |-> Num(0),
   reading_id |-> Null, calls |-> NoCalls, applied |-> FALSE,
   outcome |-> "none", speak |-> <<>>, reprompt |-> <<>>, status |-> 0]

\* responseBuilder.speak(..).reprompt(..).getResponse(), with the outcome of
\* the command it reports; the handler's local variables are gone
Respond(q, outcome, speak, reprompt) ==
  [IdleReq EXCEPT !.op = q.op, !.slots = q.slots, !.calls = q.calls,
                  !.pc = "done", !.outcome = outcome,
                  !.speak = speak, !.reprompt = reprompt]

\* the mutating routes of the REST API
RestOps == {"addReading", "updateReading", "deleteReading"}

\* res.status(..).json(..)
RestRespond(q, outcome, status) ==
  [IdleReq EXCEPT !.op = q.op, !.body = q.body, !.param = q.param,
                  !.calls = q.calls,
                  !.pc = "done", !.outcome = outcome, !.status = status]

\* the slot sets the voice platform delivers with a SaveScanIntent
SaveSlotChoices ==
  { [NoSlots EXCEPT !.IslandName = <<"E","a","s","t"," ","B","l","u","e">>,
                    !.CharacterName = <<"z","o","r","o","!">>,
                    !.UltrasonicValue = <<"5">>],
    [NoSlots EXCEPT !.IslandName = <<"z","z","z">>,
                    !.CharacterName = <<"L","u","f","f","y">>],
    [NoSlots EXCEPT !.IslandName = <<"E","a","s","t"," ","B","l","u","e">>],
    [NoSlots EXCEPT !.IslandName = <<"E","a","s","t"," ","B","l","u","e">>,
                    !.CharacterName = <<"z","o","r","o","!">>,
                    !.UltrasonicValue = <<"a","b","c">>] }

\* the slot sets the voice platform delivers with an UpdateCharacterIntent
UpdateSlotChoices ==
  { [NoSlots EXCEPT !.NewIsland = <<"A","l","a","b","a","s","t","a">>,
                    !.NewCharacter = <<"N","a","m","i">>],
    [NoSlots EXCEPT !.NewIsland = <<"z","z","z">>,
                    !.NewCharacter = <<"Z","o","r","o">>],
    [NoSlots EXCEPT !.NewIsland = <<"A","l","a","b","a","s","t","a">>] }

\* requests that may still insert a row: AUTO_INCREMENT is capped at MaxId
PendingInserts ==
  Cardinality({c \in Clients : /\ reqs[c].op \in {"save", "addReading"}
                               /\ reqs[c].pc # "done"
                               /\ ~reqs[c].applied})
    + BagCardinality([s \in {x \in BagToSet(routes) : x.kind = "insert"} |-> routes[s]])
InsertRoom == nextId + PendingInserts <= MaxId

SaveResolve_SwapIds(q, r) ==
  LET island_id == findIdByName(IslandList(r), q.slots.IslandName)
      character_id == findIdByName(CharacterList(r), q.slots.CharacterName)
  IN  IF Falsy(island_id) \/ Falsy(character_id)
      THEN Respond(q, "ambiguous",
             Lit("Tell me an island and a character. For example: save a scan for Luffy on East Blue."),
             Lit("Tell me an island and a character. For example: save a scan for Luffy on East Blue."))
      ELSE IF r = "integrated" /\ ~isFinite(NumberOrZero(q.slots.UltrasonicValue))
      THEN Respond(q, "invalid_input",
             Lit("Invalid input. Please provide valid numbers and character names."), <<>>)
      ELSE [q EXCEPT !.pc = "await_insert",
                     !.island_id = character_id,
                     !.character_id = island_id,
                     !.calls.insert = @ + 1]

SaveResolve_IslandOnly(q, r) ==
  LET island_id == findIdByName(IslandList(r), q.slots.IslandName)
      character_id == findIdByName(CharacterList(r), q.slots.CharacterName)
  IN  IF Falsy(island_id)
      THEN Respond(q, "ambiguous",
             Lit("Tell me an island and a character. For example: save a scan for Luffy on East Blue."),
             Lit("Tell me an island and a character. For example: save a scan for Luffy on East Blue."))
      ELSE IF r = "integrated" /\ ~isFinite(NumberOrZero(q.slots.UltrasonicValue))
      THEN Respond(q, "invalid_input",
             Lit("Invalid input. Please provide valid numbers and character names."), <<>>)
      ELSE [q EXCEPT !.pc = "await_insert",
                     !.island_id = island_id,
                     !.character_id = character_id,
                     !.calls.insert = @ + 1]

(* SaveScanIntentHandler.handle, from the resolution of the names to the
   insert being issued *)
SaveResolve(q, r) ==
  LET island_id == findIdByName(IslandList(r), q.slots.IslandName)
      character_id == findIdByName(CharacterList(r), q.slots.CharacterName)
      ultrasonic_value ==
        IF r = "integrated" THEN NumberOrZero(q.slots.UltrasonicValue) ELSE Num(0)
      lidar_value ==
        IF r = "integrated" THEN NumberOrZero(q.slots.LidarValue) ELSE Num(0)
  IN  IF Falsy(island_id) \/ Falsy(character_id)
      THEN IF r = "integrated"
           THEN Respond(q, "ambiguous",
                  Lit("Tell me an island and a character. For example: save a scan for Luffy on East Blue."),
                  Lit("Tell me an island and a character. For example: save a scan for Luffy on East Blue."))
           ELSE Respond(q, "ambiguous",
                  Lit("Tell me an island and a character, like: save a scan for Zoro on Alabasta."),
                  Lit("Try: save a scan for Luffy on East Blue."))
      ELSE IF /\ r = "integrated"
              /\ \/ ~isFinite(ultrasonic_value)
                 \/ ~isFinite(lidar_value)
                 \/ ~isInteger(Num(island_id))
                 \/ ~isInteger(Num(character_id))
      THEN Respond(q, "invalid_input",
             Lit("Invalid input. Please provide valid numbers and character names."), <<>>)
      ELSE [q EXCEPT !.pc = "await_insert",
                     !.island_id = island_id,
                     !.character_id = character_id,
                     !.ultrasonic_value = ultrasonic_value,
                     !.lidar_value = lidar_value,
                     !.calls.insert = @ + 1]

SaveStart(c, s) ==
  /\ rev \in {"integrated", "selfhttp"}
  /\ reqs[c].pc = "idle"
  /\ InsertRoom
  /\ LET q == [IdleReq EXCEPT !.op = "save", !.slots = s]
     IN  reqs' = [reqs EXCEPT ![c] =
           IF rev = "integrated"
           THEN SaveResolve(q, rev)
           ELSE [q EXCEPT !.pc = "await_lists", !.calls.select = @ + 2]]
  /\ UNCHANGED <<rev, readings, nextId, routes>>
  /\ UNCHANGED resolverVars

\* GET /islands and GET /characters have answered (Promise.all)
SaveLists(c) ==
  /\ reqs[c].op = "save"
  /\ reqs[c].pc = "await_lists"
  /\ reqs' = [reqs EXCEPT ![c] = SaveResolve(reqs[c], rev)]
  /\ UNCHANGED <<rev, readings, nextId, routes>>
  /\ UNCHANGED resolverVars

(* POST /addReading, to the INSERT being issued *)
AddReadingRoute(q, r) ==
  LET b == q.body
      ultrasonic_value == ToNumber(b.ultrasonic_value)
      lidar_value == ToNumber(b.lidar_value)
      island_id == ToNumber(b.island_id)
      character_id == ToNumber(b.character_id)
      issued == [q EXCEPT !.pc = "await_insert",
                          !.ultrasonic_value = ultrasonic_value,
                          !.lidar_value = lidar_value,
                          !.island_id = island_id.val,
                          !.character_id = character_id.val,
                          !.calls.insert = @ + 1]
  IN  IF r \notin RestRevisions THEN RestRespond(q, "no_route", 404)
      ELSE IF r = "selfhttp"
      THEN IF \/ b.ultrasonic_value.t = "undefined"
              \/ b.lidar_value.t = "undefined"
              \/ b.island_id.t = "undefined"
              \/ b.character_id.t = "undefined"
           THEN RestRespond(q, "invalid_input", 400)
           ELSE issued
      ELSE IF \/ ~isFinite(ultrasonic_value)
              \/ ~isFinite(lidar_value)
              \/ ~isInteger(island_id)
              \/ ~isInteger(character_id)
           THEN RestRespond(q, "invalid_input", 400)
           ELSE issued

\* the bodies clients post to /addReading: a well-formed reading, a reading
\* of an island the store does not hold, a body without island_id
AddReadingBodies ==
  { [ultrasonic_value |-> JsNumber(0), lidar_value |-> JsNumber(0),
     island_id |-> JsNumber(1), character_id |-> JsNumber(2)],
    [ultrasonic_value |-> JsNumber(0), lidar_value |-> JsNumber(0),
     island_id |-> JsNumber(9), character_id |-> JsNumber(2)],
    [ultrasonic_value |-> JsNumber(0), lidar_value |-> JsNumber(0),
     island_id |-> JsUndefined, character_id |-> JsNumber(2)] }

AddReadingStart(c, b) ==
  /\ reqs[c].pc = "idle"
  /\ InsertRoom
  /\ reqs' = [reqs EXCEPT ![c] =
       AddReadingRoute([IdleReq EXCEPT !.op = "addReading", !.body = b], rev)]
  /\ UNCHANGED <<rev, readings, nextId, routes>>
  /\ UNCHANGED resolverVars

\* what the handler of revision r says when an awaited call rejects: its own
\* catch block's apology, or (no try/catch) the skill's ErrorHandler
Apology(r, op) ==
  IF r \in DirectRevisions THEN Lit("Sorry, something went wrong.")
  ELSE IF op = "get"
  THEN (IF r = "integrated"
        THEN Lit("Sorry, I could not retrieve your latest scan right now.")
        ELSE Lit("Sorry, I couldn't retrieve your latest scan."))
  ELSE IF op = "save"
  THEN (IF r = "integrated"
        THEN Lit("Sorry, I could not save the scan right now.")
        ELSE Lit("Sorry, I couldn't save a scan right now."))
  ELSE IF op = "update"
  THEN (IF r = "integrated"
        THEN Lit("Sorry, I could not update your latest scan right now.")
        ELSE Lit("Sorry, I couldn't update your latest scan."))
  ELSE (IF r = "integrated"
        THEN Lit("Sorry, I could not delete your latest scan right now.")
        ELSE Lit("Sorry, I couldn't delete your latest scan."))

Failed_Uncaught(q, r) ==
  [IdleReq EXCEPT !.op = q.op, !.slots = q.slots, !.body = q.body,
                  !.param = q.param, !.calls = q.calls, !.pc = "done",
                  !.outcome = "upstream_failure", !.status = 500]

Failed_Retries(q, r) ==
  IF q.op \in RestOps
  THEN RestRespond(q, "upstream_failure", 500)
  ELSE IF q.pc = "await_update" /\ q.calls.update < 2
  THEN [q EXCEPT !.calls.update = @ + 1]
  ELSE IF q.pc = "await_delete" /\ q.calls.delete < 2
  THEN [q EXCEPT !.calls.delete = @ + 1]
  ELSE IF q.pc = "await_insert" /\ q.calls.insert < 2
  THEN [q EXCEPT !.calls.insert = @ + 1]
  ELSE Respond(q, "upstream_failure", Apology(r, q.op), <<>>)

\* the response to a request whose awaited call rejected
Failed(q, r) ==
  IF q.op \in RestOps
  THEN RestRespond(q, "upstream_failure", 500)
  ELSE Respond(q, "upstream_failure", Apology(r, q.op), <<>>)

\* the handler of request q reaches the store through the server's own
\* route: axios.post / put / delete of the first server of part_000
SelfCalls(q, r) == r = "selfhttp" /\ q.op \in {"save", "update", "delete"}

\* the statement the route called by request q is about to run
RouteStatement(q) ==
  [kind |-> IF q.pc = "await_insert" THEN "insert"
            ELSE IF q.pc = "await_update" THEN "update" ELSE "delete",
   reading_id |-> q.reading_id,
   ultrasonic_value |-> q.ultrasonic_value,
   lidar_value |-> q.lidar_value,
   island_id |-> q.island_id,
   character_id |-> q.character_id]

\* the store refuses statement s: an INSERT that breaks a foreign key, or
\* whose value is no number
StatementRefused(s) ==
  /\ s.kind = "insert"
  /\ ~(/\ ForeignKeysHold(s.island_id, s.character_id)
       /\ isFinite(s.ultrasonic_value)
       /\ isFinite(s.lidar_value))

\* the store runs statement s of a route (db.execute / db.query)
StatementRuns(s) ==
  IF StatementRefused(s) THEN UNCHANGED <<readings, nextId>>
  ELSE IF s.kind = "insert"
  THEN /\ readings' = InsertReading(readings, nextId,
                        s.ultrasonic_value.val, s.lidar_value.val,
                        s.island_id, s.character_id)
       /\ nextId' = nextId + 1
  ELSE IF s.kind = "update"
  THEN /\ readings' = UpdateReading(readings, s.reading_id,
                         s.island_id, s.character_id)
       /\ UNCHANGED nextId
  ELSE /\ readings' = DeleteReading(readings, s.reading_id)
       /\ UNCHANGED nextId

\* the INSERT has run: db.execute in SaveScanIntentHandler or in POST
\* /addReading changes the store and the response follows in the same turn;
\* a row that breaks a foreign key, or a value that is no number, is refused.
\* The handler of the self-calling server is answered by its route, which
\* has run the INSERT in a step of its own (RouteApplies) or been refused.
InsertExec(c) ==
  /\ reqs[c].pc = "await_insert"
  /\ IF SelfCalls(reqs[c], rev)
     THEN /\ reqs[c].applied \/ StatementRefused(RouteStatement(reqs[c]))
          /\ reqs' = [reqs EXCEPT ![c] =
               IF reqs[c].applied
               THEN Respond(reqs[c], "success",
                      <<Lit("Saved. I added a scan for "), reqs[c].slots.CharacterName,
                        Lit(" on "), reqs[c].slots.IslandName, Lit(".")>>, <<>>)
               ELSE Failed(reqs[c], rev)]
          /\ UNCHANGED <<readings, nextId>>
     ELSE IF /\ ForeignKeysHold(reqs[c].island_id, reqs[c].character_id)
             /\ isFinite(reqs[c].ultrasonic_value)
             /\ isFinite(reqs[c].lidar_value)
     THEN /\ readings' = InsertReading(readings, nextId,
                           reqs[c].ultrasonic_value.val, reqs[c].lidar_value.val,
                           reqs[c].island_id, reqs[c].character_id)
          /\ nextId' = nextId + 1
          /\ reqs' = [reqs EXCEPT ![c] =
               IF reqs[c].op = "addReading"
               THEN RestRespond(reqs[c], "success", 200)
               ELSE Respond(reqs[c], "success",
                      <<Lit("Saved. I added a scan for "), reqs[c].slots.CharacterName,
                        Lit(" on "), reqs[c].slots.IslandName, Lit(".")>>, <<>>)]
     ELSE /\ reqs' = [reqs EXCEPT ![c] = Failed(reqs[c], rev)]
          /\ UNCHANGED <<readings, nextId>>
  /\ UNCHANGED <<rev, routes>>
  /\ UNCHANGED resolverVars

(* UpdateCharacterIntentHandler.handle, from the resolution of the names to
   the next call being issued *)
UpdateResolve(q, r) ==
  LET character_id == findIdByName(CharacterList(r), q.slots.NewCharacter)
      island_id == findIdByName(IslandList(r), q.slots.NewIsland)
  IN  IF Falsy(character_id) \/ Falsy(island_id)
      THEN IF r = "integrated"
           THEN Respond(q, "ambiguous",
                  Lit("I couldn't match that island or character. Try saying something like: update my scan to Luffy on East Blue."),
                  Lit("I couldn't match that island or character. Try saying something like: update my scan to Luffy on East Blue."))
           ELSE Respond(q, "ambiguous",
                  Lit("I couldn't match that island or character. Try saying: update my scan to Luffy on East Blue."),
                  <<>>)
      ELSE IF r = "integrated"
      THEN [q EXCEPT !.pc = "await_latest",
                     !.island_id = island_id,
                     !.character_id = character_id,
                     !.calls.select = @ + 1]
      ELSE [q EXCEPT !.pc = "await_update",
                     !.island_id = island_id,
                     !.character_id = character_id,
                     !.calls.update = @ + 1]

UpdateStart(c, s) ==
  /\ rev \in {"integrated", "selfhttp"}
  /\ reqs[c].pc = "idle"
  /\ LET q == [IdleReq EXCEPT !.op = "update", !.slots = s]
     IN  reqs' = [reqs EXCEPT ![c] =
           IF rev = "integrated"
           THEN UpdateResolve(q, rev)
           ELSE [q EXCEPT !.pc = "await_latest", !.calls.select = @ + 1]]
  /\ UNCHANGED <<rev, readings, nextId, routes>>
  /\ UNCHANGED resolverVars

UpdateLocated_NoEmptyCheck(q, r, rows) ==
  LET reading_id == IF rows = <<>> THEN Null ELSE rows[1].reading_id
  IN  IF r = "integrated"
      THEN [q EXCEPT !.pc = "await_update", !.reading_id = reading_id,
                     !.calls.update = @ + 1]
      ELSE [q EXCEPT !.pc = "await_lists", !.reading_id = reading_id,
                     !.calls.select = @ + 2]

(* UpdateCharacterIntentHandler.handle, from the rows of the latest reading
   to the next call being issued *)
UpdateLocated(q, r, rows) ==
  IF rows = <<>>
  THEN IF r = "integrated"
       THEN Respond(q, "not_found",
              Lit("I do not see any scans to update yet. Send a scan first with the Arduino button."), <<>>)
       ELSE Respond(q, "not_found", Lit("No scans to update yet. Send one first."), <<>>)
  ELSE IF r = "integrated"
  THEN [q EXCEPT !.pc = "await_update", !.reading_id = rows[1].reading_id,
                 !.calls.update = @ + 1]
  ELSE [q EXCEPT !.pc = "await_lists", !.reading_id = rows[1].reading_id,
                 !.calls.select = @ + 2]

\* the latest reading has been selected
UpdateLatest(c) ==
  /\ reqs[c].op = "update"
  /\ reqs[c].pc = "await_latest"
  /\ reqs' = [reqs EXCEPT ![c] =
       UpdateLocated(reqs[c], rev, LatestRows(rev, "update", readings))]
  /\ UNCHANGED <<rev, readings, nextId, routes>>
  /\ UNCHANGED resolverVars

\* GET /islands and GET /characters have answered (Promise.all)
UpdateLists(c) ==
  /\ reqs[c].op = "update"
  /\ reqs[c].pc = "await_lists"
  /\ reqs' = [reqs EXCEPT ![c] = UpdateResolve(reqs[c], rev)]
  /\ UNCHANGED <<rev, readings, nextId, routes>>
  /\ UNCHANGED resolverVars

\* the UPDATE has run: db.execute changes the store and the response follows
\* in the same turn; the handler of the self-calling server is answered by
\* PUT /updateReading/:id, which has run the UPDATE in a step of its own
UpdateExec(c) ==
  /\ reqs[c].op = "update"
  /\ reqs[c].pc = "await_update"
  /\ IF SelfCalls(reqs[c], rev)
     THEN reqs[c].applied /\ readings' = readings
     ELSE readings' = UpdateReading(readings, reqs[c].reading_id,
                        reqs[c].island_id, reqs[c].character_id)
  /\ reqs' = [reqs EXCEPT ![c] =
       Respond(reqs[c], "success",
         <<Lit("Done. I updated your latest scan to "), reqs[c].slots.NewCharacter,
           Lit(" on "), reqs[c].slots.NewIsland, Lit(".")>>, <<>>)]
  /\ UNCHANGED <<rev, nextId, routes>>
  /\ UNCHANGED resolverVars

(* DeleteScanIntentHandler.handle *)
DeleteStart(c) ==
  /\ reqs[c].pc = "idle"
  /\ reqs' = [reqs EXCEPT ![c] =
       [IdleReq EXCEPT !.op = "delete", !.pc = "await_latest", !.calls.select = @ + 1]]
  /\ UNCHANGED <<rev, readings, nextId, routes>>
  /\ UNCHANGED resolverVars

NoScansToDelete(r) ==
  IF r = "integrated" THEN Lit("There aren't any scans to delete yet.")
  ELSE IF r = "selfhttp" THEN Lit("There aren't any scans to delete.")
  ELSE Lit("There are no scans to delete.")

DeleteLocated_NoEmptyCheck(q, r, rows) ==
  [q EXCEPT !.pc = "await_delete",
            !.reading_id = IF rows = <<>> THEN Null ELSE rows[1].reading_id,
            !.calls.delete = @ + 1]

DeleteLocated_Hangs(q, r, rows) ==
  IF rows = <<>>
  THEN [q EXCEPT !.pc = "hung"]
  ELSE [q EXCEPT !.pc = "await_delete", !.reading_id = rows[1].reading_id,
                 !.calls.delete = @ + 1]

(* DeleteScanIntentHandler.handle, from the rows of the latest reading to the
   DELETE being issued *)
DeleteLocated(q, r, rows) ==
  IF rows = <<>>
  THEN Respond(q, "not_found", NoScansToDelete(r), <<>>)
  ELSE [q EXCEPT !.pc = "await_delete", !.reading_id = rows[1].reading_id,
                 !.calls.delete = @ + 1]

\* the latest reading has been selected
DeleteLatest(c) ==
  /\ reqs[c].op = "delete"
  /\ reqs[c].pc = "await_latest"
  /\ reqs' = [reqs EXCEPT ![c] =
       DeleteLocated(reqs[c], rev, LatestRows(rev, "delete", readings))]
  /\ UNCHANGED <<rev, readings, nextId, routes>>
  /\ UNCHANGED resolverVars

DeleteExec_Relocates(c) ==
  /\ reqs[c].op = "delete"
  /\ reqs[c].pc = "await_delete"
  /\ readings' = IF readings = {} THEN readings
                 ELSE DeleteReading(readings, MaxReadingId(readings))
  /\ reqs' = [reqs EXCEPT ![c] =
       Respond(reqs[c], "success", Lit("Deleted your latest scan."), <<>>)]
  /\ UNCHANGED <<rev, nextId, routes>>
  /\ UNCHANGED resolverVars

\* the DELETE has run: db.execute changes the store and the response follows
\* in the same turn; the handler of the self-calling server is answered by
\* DELETE /deleteReading/:id, which has run the DELETE in a step of its own
DeleteExec(c) ==
  /\ reqs[c].op = "delete"
  /\ reqs[c].pc = "await_delete"
  /\ IF SelfCalls(reqs[c], rev)
     THEN reqs[c].applied /\ readings' = readings
     ELSE readings' = DeleteReading(readings, reqs[c].reading_id)
  /\ reqs' = [reqs EXCEPT ![c] =
       Respond(reqs[c], "success", Lit("Deleted your latest scan."), <<>>)]
  /\ UNCHANGED <<rev, nextId, routes>>
  /\ UNCHANGED resolverVars

(* GetCharacterIntentHandler.handle *)
GetStart(c) ==
  /\ reqs[c].pc = "idle"
  /\ reqs' = [reqs EXCEPT ![c] =
       [IdleReq EXCEPT !.op = "get", !.pc = "await_latest", !.calls.select = @ + 1]]
  /\ UNCHANGED <<rev, readings, nextId, routes>>
  /\ UNCHANGED resolverVars

NoScansYet(r) ==
  IF r = "integrated"
  THEN Lit("I couldn't find any scans yet. Press the button on the Arduino to send one.")
  ELSE IF r = "selfhttp" THEN Lit("No scans yet. Press the Arduino button to send one.")
  ELSE Lit("I couldn't find any scans yet.")

LatestScanText(r, latest) ==
  IF r \in {"direct_rest", "skill_only"}
  THEN << Lit("Your latest scan shows "),
          latest.character_name, Lit(" on "), latest.island_name,
          Lit(".\n       Ultrasonic is "), Lit(ToString(latest.ultrasonic_value)),
          Lit(" centimeters,\n       and LiDAR is "), Lit(ToString(latest.lidar_value)),
          Lit(" centimeters.") >>
  ELSE << IF r = "direct" THEN Lit("Your latest scan shows ") ELSE Lit("Your latest scan says "),
          latest.character_name, Lit(" on "), latest.island_name,
          Lit(". Ultrasonic is "), Lit(ToString(latest.ultrasonic_value)),
          Lit(" centimeters, and LiDAR is "), Lit(ToString(latest.lidar_value)),
          Lit(" centimeters.") >>

(* GetCharacterIntentHandler.handle, from the rows of the latest reading to
   the response *)
GetLocated(q, r, rows) ==
  IF rows = <<>>
  THEN Respond(q, "not_found", NoScansYet(r), <<>>)
  ELSE Respond(q, "success", LatestScanText(r, rows[1]), <<>>)

GetLatest_Consumes(c) ==
  /\ reqs[c].op = "get"
  /\ reqs[c].pc = "await_latest"
  /\ reqs' = [reqs EXCEPT ![c] =
       GetLocated(reqs[c], rev, LatestRows(rev, "get", readings))]
  /\ readings' = IF readings = {} THEN readings
                 ELSE DeleteReading(readings, MaxReadingId(readings))
  /\ UNCHANGED <<rev, nextId, routes>>
  /\ UNCHANGED resolverVars

\* the latest reading has been selected
GetLatest(c) ==
  /\ reqs[c].op = "get"
  /\ reqs[c].pc = "await_latest"
  /\ reqs' = [reqs EXCEPT ![c] =
       GetLocated(reqs[c], rev, LatestRows(rev, "get", readings))]
  /\ UNCHANGED <<rev, readings, nextId, routes>>
  /\ UNCHANGED resolverVars

\* the awaited call (a query of the pool, or a request to the server's own
\* route) rejects before it changes the store
CallFails(c) ==
  /\ reqs[c].pc \in {"await_latest", "await_lists", "await_insert", "await_update", "await_delete"}
  /\ ~reqs[c].applied
  /\ reqs' = [reqs EXCEPT ![c] = Failed(reqs[c], rev)]
  /\ UNCHANGED <<rev, readings, nextId, routes>>
  /\ UNCHANGED resolverVars

\* the route called by the handler of client c runs its statement (await
\* db.execute / db.query); the handler still awaits the route's response
RouteApplies(c) ==
  /\ SelfCalls(reqs[c], rev)
  /\ reqs[c].pc \in {"await_insert", "await_update", "await_delete"}
  /\ ~reqs[c].applied
  /\ ~StatementRefused(RouteStatement(reqs[c]))
  /\ StatementRuns(RouteStatement(reqs[c]))
  /\ reqs' = [reqs EXCEPT ![c].applied = TRUE]
  /\ UNCHANGED <<rev, routes>>
  /\ UNCHANGED resolverVars

\* a request of a handler to the server's own route (axios, timeout: 8000)
\* times out: the handler's await rejects and its catch block answers. The
\* route has run its statement already and its response comes too late, or
\* it goes on in the same process and has yet to run its statement
CallTimesOut(c) ==
  /\ SelfCalls(reqs[c], rev)
  /\ reqs[c].pc \in {"await_insert", "await_update", "await_delete"}
  /\ reqs' = [reqs EXCEPT ![c] = Failed(reqs[c], rev)]
  /\ IF reqs[c].applied
     THEN routes' = routes
     ELSE /\ BagCardinality(routes) < MaxPending
          /\ routes' = routes (+) SetToBag({RouteStatement(reqs[c])})
  /\ UNCHANGED <<rev, readings, nextId>>
  /\ UNCHANGED resolverVars

\* a route whose caller has given up runs its statement
RouteRuns(s) ==
  /\ BagIn(s, routes)
  /\ routes' = routes (-) SetToBag({s})
  /\ StatementRuns(s)
  /\ UNCHANGED <<rev, reqs>>
  /\ UNCHANGED resolverVars

\* the statement of a route whose caller has given up fails: the route's
\* catch block answers 500 to a closed connection
RouteFails(s) ==
  /\ BagIn(s, routes)
  /\ routes' = routes (-) SetToBag({s})
  /\ UNCHANGED <<rev, readings, nextId, reqs>>
  /\ UNCHANGED resolverVars

(* Intent requests other than the four that read or change the store *)

\* the intents whose handlers query or change the store
StoreIntents ==
  {"GetCharacterIntent", "SaveScanIntent", "UpdateCharacterIntent", "DeleteScanIntent"}

\* the intent names for which a handler registered with the skill answers
\* canHandle with true
RegisteredIntents(r) ==
  IF r \in DirectRevisions
  THEN {"GetCharacterIntent", "DeleteScanIntent"}
  ELSE StoreIntents \cup {"AMAZON.HelpIntent", "AMAZON.CancelIntent",
                          "AMAZON.StopIntent", "AMAZON.FallbackIntent"}

HelpText(r) ==
  IF r = "integrated"
  THEN Lit("Try: what's my latest scan, update my scan to Zoro on Alabasta, delete my latest scan, or save a scan for Luffy on East Blue.")
  ELSE Lit("Try: what's my latest scan, update my scan to Luffy on East Blue, delete my latest scan, or save a scan for Zoro on Alabasta.")

\* ErrorHandler.handle: canHandle is true for every error, the dispatcher's
\* "no handler for this request" included
ErrorHandler(q, r) ==
  Respond(q, "unhandled", Lit("Sorry, something went wrong."),
          IF r \in DirectRevisions THEN <<>> ELSE Lit("Try again."))

\* the skill's dispatch of an intent request that carries no slots: the first
\* registered handler whose canHandle holds, or the ErrorHandler
Dispatch(q, r) ==
  IF q.op \notin RegisteredIntents(r) THEN ErrorHandler(q, r)
  ELSE IF q.op = "AMAZON.HelpIntent"
  THEN Respond(q, "help", HelpText(r), HelpText(r))
  ELSE IF q.op = "AMAZON.FallbackIntent"
  THEN (IF r = "integrated"
        THEN Respond(q, "fallback",
               Lit("I did not catch that. Try asking for your latest scan."),
               Lit("Try asking: what is my latest scan?"))
        ELSE Respond(q, "fallback",
               Lit("Try asking: what's my latest scan?"),
               Lit("What's my latest scan?")))
  ELSE Respond(q, "goodbye", Lit("Goodbye."), <<>>)

\* the intent names the voice platform sends besides those of the handlers
\* that reach the store; "OrderPizzaIntent" is registered in no revision
OtherIntentNames ==
  {"AMAZON.HelpIntent", "AMAZON.FallbackIntent", "SaveScanIntent", "OrderPizzaIntent"}

\* an intent request that no store handler of the revision takes
OtherIntent(c, name) ==
  /\ reqs[c].pc = "idle"
  /\ name \notin StoreIntents \cap RegisteredIntents(rev)
  /\ reqs' = [reqs EXCEPT ![c] = Dispatch([IdleReq EXCEPT !.op = name], rev)]
  /\ UNCHANGED <<rev, readings, nextId, routes>>
  /\ UNCHANGED resolverVars

\* the response has been sent; the client may send its next request
Retire(c) ==
  /\ reqs[c].pc = "done"
  /\ reqs' = [reqs EXCEPT ![c] = IdleReq]
  /\ UNCHANGED <<rev, readings, nextId, routes>>
  /\ UNCHANGED resolverVars

----------------------------------------------------------------------------
(* The REST routes that update and delete a reading *)

(* PUT /updateReading/:id, to the UPDATE being issued *)
UpdateReadingRoute(q, r) ==
  LET reading_id == StringToNumber(q.param)
      island_id == ToNumber(q.body.island_id)
      character_id == ToNumber(q.body.character_id)
  IN  IF r \notin RestRevisions THEN RestRespond(q, "no_route", 404)
      ELSE IF /\ r # "selfhttp"
              /\ \/ ~isInteger(reading_id)
                 \/ ~isInteger(island_id)
                 \/ ~isInteger(character_id)
      THEN RestRespond(q, "invalid_input", 400)
      ELSE [q EXCEPT !.pc = "await_update",
                     !.reading_id = reading_id.val,
                     !.island_id = island_id.val,
                     !.character_id = character_id.val,
                     !.calls.update = @ + 1]

(* DELETE /deleteReading/:id, to the DELETE being issued *)
DeleteReadingRoute(q, r) ==
  LET reading_id == StringToNumber(q.param)
  IN  IF r \notin RestRevisions THEN RestRespond(q, "no_route", 404)
      ELSE IF r # "selfhttp" /\ ~isInteger(reading_id)
      THEN RestRespond(q, "invalid_input", 400)
      ELSE [q EXCEPT !.pc = "await_delete",
                     !.reading_id = reading_id.val,
                     !.calls.delete = @ + 1]

\* the :id segments clients put in the path: "1", "2" and "abc"
PathIds == { <<"1">>, <<"2">>, <<"a","b","c">> }

\* the bodies clients send to PUT /updateReading/:id: two identifiers, a body
\* without island_id, a body whose island_id is the string "abc"
UpdateReadingBodies ==
  { [NoBody EXCEPT !.island_id = JsNumber(2), !.character_id = JsNumber(3)],
    [NoBody EXCEPT !.character_id = JsNumber(3)],
    [NoBody EXCEPT !.island_id = JsString(<<"a","b","c">>), !.character_id = JsNumber(3)] }

\* the bodies clients post to /addReading: numbers; ultrasonic_value "abc",
\* null, "" and "7"; a body without island_id
RestAddReadingBodies ==
  { [ultrasonic_value |-> JsNumber(10), lidar_value |-> JsNumber(20),
     island_id |-> JsNumber(1), character_id |-> JsNumber(1)],
    [ultrasonic_value |-> JsString(<<"a","b","c">>), lidar_value |-> JsNumber(20),
     island_id |-> JsNumber(1), character_id |-> JsNumber(1)],
    [ultrasonic_value |-> JsNull, lidar_value |-> JsNumber(20),
     island_id |-> JsNumber(1), character_id |-> JsNumber(1)],
    [ultrasonic_value |-> JsString(<<>>), lidar_value |-> JsNumber(20),
     island_id |-> JsNumber(1), character_id |-> JsNumber(1)],
    [ultrasonic_value |-> JsString(<<"7">>), lidar_value |-> JsNumber(20),
     island_id |-> JsNumber(1), character_id |-> JsNumber(1)],
    [ultrasonic_value |-> JsNumber(10), lidar_value |-> JsNumber(20),
     island_id |-> JsUndefined, character_id |-> JsNumber(1)] }

UpdateReadingStart(c, p, b) ==
  /\ reqs[c].pc = "idle"
  /\ reqs' = [reqs EXCEPT ![c] =
       UpdateReadingRoute([IdleReq EXCEPT !.op = "updateReading", !.param = p, !.body = b], rev)]
  /\ UNCHANGED <<rev, readings, nextId, routes>>
  /\ UNCHANGED resolverVars

\* the store runs the UPDATE of the route: a parameter that is no integer, or
\* a row changed to an island or character the store does not hold, is refused
UpdateReadingExec(c) ==
  /\ reqs[c].op = "updateReading"
  /\ reqs[c].pc = "await_update"
  /\ IF /\ isInteger(StringToNumber(reqs[c].param))
        /\ isInteger(ToNumber(reqs[c].body.island_id))
        /\ isInteger(ToNumber(reqs[c].body.character_id))
        /\ \/ \A r \in readings : r.reading_id # reqs[c].reading_id
           \/ ForeignKeysHold(reqs[c].island_id, reqs[c].character_id)
     THEN /\ readings' = UpdateReading(readings, reqs[c].reading_id,
                           reqs[c].island_id, reqs[c].character_id)
          /\ reqs' = [reqs EXCEPT ![c] = RestRespond(reqs[c], "success", 200)]
     ELSE /\ reqs' = [reqs EXCEPT ![c] = Failed(reqs[c], rev)]
          /\ UNCHANGED readings
  /\ UNCHANGED <<rev, nextId, routes>>
  /\ UNCHANGED resolverVars

DeleteReadingStart(c, p) ==
  /\ reqs[c].pc = "idle"
  /\ reqs' = [reqs EXCEPT ![c] =
       DeleteReadingRoute([IdleReq EXCEPT !.op = "deleteReading", !.param = p], rev)]
  /\ UNCHANGED <<rev, readings, nextId, routes>>
  /\ UNCHANGED resolverVars

\* the store runs the DELETE of the route: a parameter that is no integer is
\* refused
DeleteReadingExec(c) ==
  /\ reqs[c].op = "deleteReading"
  /\ reqs[c].pc = "await_delete"
  /\ IF isInteger(StringToNumber(reqs[c].param))
     THEN /\ readings' = DeleteReading(readings, reqs[c].reading_id)
          /\ reqs' = [reqs EXCEPT ![c] = RestRespond(reqs[c], "success", 200)]
     ELSE /\ reqs' = [reqs EXCEPT ![c] = Failed(reqs[c], rev)]
          /\ UNCHANGED readings
  /\ UNCHANGED <<rev, nextId, routes>>
  /\ UNCHANGED resolverVars

----------------------------------------------------------------------------
(* The server *)

ResolverIdle ==
  /\ list = <<>>
  /\ spokenName = Undefined
  /\ called = FALSE
  /\ result = Null
  /\ normed = <<>>

Init ==
  /\ rev \in Revisions
  /\ readings = {}
  /\ nextId = 1
  /\ reqs = [c \in Clients |-> IdleReq]
  /\ routes = EmptyBag
  /\ ResolverIdle

\* the :id segments of the readings the store can hold, and a body of
\* PUT /updateReading/:id that names an island and a character of the store
StoredPathIds == { <<"1">>, <<"2">> }
UpdateReadingBody ==
  [NoBody EXCEPT !.island_id = JsNumber(2), !.character_id = JsNumber(3)]

\* a request of client c, voice or REST, arrives and runs to its first await
\* or to its response
RequestStarts(c) ==
  \/ \E s \in SaveSlotChoices : SaveStart(c, s)
  \/ \E b \in AddReadingBodies : AddReadingStart(c, b)
  \/ \E s \in UpdateSlotChoices : UpdateStart(c, s)
  \/ DeleteStart(c)
  \/ GetStart(c)
  \/ \E name \in OtherIntentNames : OtherIntent(c, name)
  \/ \E p \in StoredPathIds : UpdateReadingStart(c, p, UpdateReadingBody)
  \/ \E p \in StoredPathIds : DeleteReadingStart(c, p)

\* the call the request of client c awaits returns, or the route it called
\* runs its statement
RequestReturns(c) ==
  \/ SaveLists(c)
  \/ InsertExec(c)
  \/ UpdateLatest(c)
  \/ UpdateLists(c)
  \/ UpdateExec(c)
  \/ DeleteLatest(c)
  \/ DeleteExec(c)
  \/ GetLatest(c)
  \/ CallFails(c)
  \/ RouteApplies(c)
  \/ CallTimesOut(c)
  \/ UpdateReadingExec(c)
  \/ DeleteReadingExec(c)

\* a step of the request of client c after its start, the sending of its
\* response included
RequestSteps(c) == RequestReturns(c) \/ Retire(c)

Next ==
  \/ \E c \in Clients : RequestStarts(c) \/ RequestSteps(c)
  \/ \E s \in BagToSet(routes) : RouteRuns(s)
  \/ \E s \in BagToSet(routes) : RouteFails(s)

Spec == Init /\ [][Next]_vars

\* the call client c's request awaits returns, with a result or an error
CallReturns(c) ==
  \/ CallFails(c)
  \/ CallTimesOut(c)
  \/ GetLatest(c)
  \/ DeleteLatest(c)
  \/ DeleteExec(c)
  \/ InsertExec(c)
  \/ UpdateExec(c)
  \/ UpdateLatest(c)
  \/ UpdateLists(c)
  \/ SaveLists(c)

----------------------------------------------------------------------------
(* The server answering one client, whose requests, voice and REST, follow  *)
(* one another: the client sends a request once the one before has been     *)
(* answered. A route whose caller gave up may still run meanwhile.          *)

SoloClients == {"c1"}

NextSolo ==
  \/ \E c \in SoloClients : RequestStarts(c) \/ RequestSteps(c)
  \/ \E s \in BagToSet(routes) : RouteRuns(s)
  \/ \E s \in BagToSet(routes) : RouteFails(s)

SpecSolo == Init /\ [][NextSolo]_vars

\* the same, every awaited call returning in the end
SpecLive == SpecSolo /\ \A c \in SoloClients : WF_vars(CallReturns(c))

----------------------------------------------------------------------------
(* One request, voice or REST, sent to a server at rest: no other request   *)
(* is in flight, no route is left running, and the store holds any readings *)
(* earlier requests can have left.                                          *)

\* readings that reference islands and characters of the store
RestingRows ==
  [reading_id : 1..MaxId, ultrasonic_value : {5}, lidar_value : {7},
   island_id : {1, 2}, character_id : {2, 3}]

\* reading_id is the primary key
RestingStores ==
  {rs \in SUBSET RestingRows :
     \A r1, r2 \in rs : r1.reading_id = r2.reading_id => r1 = r2}

InitOne ==
  /\ rev \in Revisions
  /\ readings \in RestingStores
  /\ nextId \in {n \in 1..(MaxId + 1) : \A r \in readings : r.reading_id < n}
  /\ reqs = [c \in Clients |-> IdleReq]
  /\ routes = EmptyBag
  /\ ResolverIdle

NextOne ==
  \/ \E c \in SoloClients : RequestStarts(c) \/ RequestReturns(c)
  \/ \E s \in BagToSet(routes) : RouteRuns(s)
  \/ \E s \in BagToSet(routes) : RouteFails(s)

SpecOne == InitOne /\ [][NextOne]_vars

----------------------------------------------------------------------------
(* The skill: the request envelopes of the voice platform, the canHandle of *)
(* the handlers, the dispatcher, and the handlers that speak a fixed text.  *)

IntentNames ==
  StoreIntents \cup {"AMAZON.HelpIntent", "AMAZON.CancelIntent", "AMAZON.StopIntent",
                     "AMAZON.FallbackIntent", "OrderPizzaIntent"}

\* requestEnvelope.request.type and, for an IntentRequest, .intent.name
Envelopes ==
  {[type |-> "IntentRequest", intent |-> n] : n \in IntentNames}
    \cup {[type |-> t, intent |-> ""] : t \in {"LaunchRequest", "SessionEndedRequest"}}

canHandle_FallbackTakesAny(h, env) ==
  IF h = "LaunchRequestHandler" THEN env.type = "LaunchRequest"
  ELSE IF h = "SessionEndedRequestHandler" THEN env.type = "SessionEndedRequest"
  ELSE /\ env.type = "IntentRequest"
       /\ IF h = "GetCharacterIntentHandler" THEN env.intent = "GetCharacterIntent"
          ELSE IF h = "SaveScanIntentHandler" THEN env.intent = "SaveScanIntent"
          ELSE IF h = "UpdateCharacterIntentHandler" THEN env.intent = "UpdateCharacterIntent"
          ELSE IF h = "DeleteScanIntentHandler" THEN env.intent = "DeleteScanIntent"
          ELSE IF h = "HelpIntentHandler" THEN env.intent = "AMAZON.HelpIntent"
          ELSE IF h = "CancelAndStopIntentHandler"
          THEN env.intent = "AMAZON.CancelIntent" \/ env.intent = "AMAZON.StopIntent"
          ELSE h = "FallbackIntentHandler"

\* <Handler>.canHandle(handlerInput)
canHandle(h, env) ==
  IF h = "LaunchRequestHandler" THEN env.type = "LaunchRequest"
  ELSE IF h = "SessionEndedRequestHandler" THEN env.type = "SessionEndedRequest"
  ELSE /\ env.type = "IntentRequest"
       /\ IF h = "GetCharacterIntentHandler" THEN env.intent = "GetCharacterIntent"
          ELSE IF h = "SaveScanIntentHandler" THEN env.intent = "SaveScanIntent"
          ELSE IF h = "UpdateCharacterIntentHandler" THEN env.intent = "UpdateCharacterIntent"
          ELSE IF h = "DeleteScanIntentHandler" THEN env.intent = "DeleteScanIntent"
          ELSE IF h = "HelpIntentHandler" THEN env.intent = "AMAZON.HelpIntent"
          ELSE IF h = "CancelAndStopIntentHandler"
          THEN env.intent = "AMAZON.CancelIntent" \/ env.intent = "AMAZON.StopIntent"
          ELSE /\ h = "FallbackIntentHandler"
               /\ env.intent = "AMAZON.FallbackIntent"

\* addRequestHandlers(...), in the order of registration
RequestHandlers(r) ==
  IF r \in DirectRevisions
  THEN <<"LaunchRequestHandler", "GetCharacterIntentHandler", "DeleteScanIntentHandler">>
  ELSE <<"LaunchRequestHandler", "GetCharacterIntentHandler", "SaveScanIntentHandler",
         "UpdateCharacterIntentHandler", "DeleteScanIntentHandler", "HelpIntentHandler",
         "CancelAndStopIntentHandler", "FallbackIntentHandler",
         "SessionEndedRequestHandler">>

\* the handlers that query or change the store
StoreHandlers ==
  {"GetCharacterIntentHandler", "SaveScanIntentHandler",
   "UpdateCharacterIntentHandler", "DeleteScanIntentHandler"}

\* the dispatcher: the first handler, in the order given, whose canHandle
\* holds; with none, the dispatcher throws and the ErrorHandler answers
SelectHandler(handlers, env) ==
  LET able == {i \in DOMAIN handlers : canHandle(handlers[i], env)}
  IN  IF able = {} THEN "ErrorHandler"
      ELSE handlers[CHOOSE i \in able : \A j \in able : i <= j]

LaunchText(r) ==
  IF r \in DirectRevisions
  THEN Lit("You can ask for your latest scan, update your scan, delete it, or save one.")
  ELSE Lit("Yo. You can say: what's my latest scan, update my scan, delete my latest scan, or save a scan.")

\* handle of the handler h that speaks a fixed text (or, for the end of a
\* session, nothing), or of the ErrorHandler
SkillHandle(q, r, h) ==
  IF h = "LaunchRequestHandler"
  THEN Respond(q, "launch", LaunchText(r), LaunchText(r))
  ELSE IF h = "SessionEndedRequestHandler"
  THEN Respond(q, "ended", <<>>, <<>>)
  ELSE IF h = "ErrorHandler" THEN ErrorHandler(q, r)
  ELSE Dispatch(q, r)

\* a request that the skill gives to a handler other than the store handlers
SkillRequest(c, env) ==
  /\ reqs[c].pc = "idle"
  /\ LET h == SelectHandler(RequestHandlers(rev), env)
         q == [IdleReq EXCEPT !.op = IF env.type = "IntentRequest"
                                     THEN env.intent ELSE env.type]
     IN  /\ h \notin StoreHandlers
         /\ reqs' = [reqs EXCEPT ![c] = SkillHandle(q, rev, h)]
  /\ UNCHANGED <<rev, readings, nextId, routes>>
  /\ UNCHANGED resolverVars

NextSkill ==
  \/ \E c \in SoloClients : RequestStarts(c) \/ RequestSteps(c)
  \/ \E c \in SoloClients : \E env \in Envelopes : SkillRequest(c, env)
  \/ \E s \in BagToSet(routes) : RouteRuns(s)
  \/ \E s \in BagToSet(routes) : RouteFails(s)

SpecSkill == Init /\ [][NextSkill]_vars

----------------------------------------------------------------------------
(* Locator harness: the integrated server's query, update and delete locate *)
(* the latest reading over a store drawn from a bounded set, whose readings *)
(* reference islands that exist and an island that does not.                *)

\* island identifiers of the rows: two of table islands, one of no island
StoredIslandIds == {1, 2, 9}

StoredRows ==
  [reading_id : 1..MaxId, ultrasonic_value : {0}, lidar_value : {0},
   island_id : StoredIslandIds, character_id : {2}]

\* reading_id is the primary key
Stores ==
  {rs \in SUBSET StoredRows :
     \A r1, r2 \in rs : r1.reading_id = r2.reading_id => r1 = r2}

InitLocator ==
  /\ rev = "integrated"
  /\ readings \in Stores
  /\ nextId = MaxId + 1
  /\ reqs = [c \in Clients |-> IdleReq]
  /\ routes = EmptyBag
  /\ ResolverIdle

NextLocator ==
  \E c \in Clients :
    \/ GetStart(c)
    \/ GetLatest(c)
    \/ \E s \in UpdateSlotChoices : UpdateStart(c, s)
    \/ UpdateLatest(c)
    \/ DeleteStart(c)
    \/ DeleteLatest(c)

SpecLocator == InitLocator /\ [][NextLocator]_vars

----------------------------------------------------------------------------
(* The REST API: the mutating routes, called by one client with well-formed *)
(* and malformed requests.                                                  *)

\* the client of the REST API
RestClients == {"c1"}

NextRest ==
  \E c \in RestClients :
    \/ \E b \in RestAddReadingBodies : AddReadingStart(c, b)
    \/ InsertExec(c)
    \/ \E pb \in PathIds \X UpdateReadingBodies : UpdateReadingStart(c, pb[1], pb[2])
    \/ UpdateReadingExec(c)
    \/ \E p \in PathIds : DeleteReadingStart(c, p)
    \/ DeleteReadingExec(c)
    \/ CallFails(c)
    \/ Retire(c)

SpecRest == Init /\ [][NextRest]_vars

----------------------------------------------------------------------------
(* Resolver harness: findIdByName called once on a reference list and a    *)
(* phrase drawn from bounded sets.                                         *)

\* the characters spoken phrases are made of: a lower-case letter, an
\* upper-case letter, a space and a character outside [a-z0-9 ]
PhraseChars == {"a", "B", " ", "!"}

RECURSIVE StringsUpTo(_, _)
StringsUpTo(chars, n) ==
  IF n = 0 THEN {<<>>}
  ELSE LET shorter == StringsUpTo(chars, n - 1)
       IN  shorter \cup {Append(s, c) : s \in shorter, c \in chars}

Phrases == StringsUpTo(PhraseChars, MaxPhraseLen) \cup {Undefined}

\* names a reference row may carry: "a", "a!", "aB", "!" and "B a"
RefNames == { <<"a">>, <<"a","!">>, <<"a","B">>, <<"!">>, <<"B"," ","a">> }

\* rows as the tables hold them: identifiers 1, 2, ... in list order
RefLists ==
  UNION { { [i \in 1..n |-> [id |-> i, name |-> names[i]]] : names \in [1..n -> RefNames] }
          : n \in 0..MaxListLen }

ServerIdle ==
  /\ rev = "integrated"
  /\ readings = {}
  /\ nextId = 1
  /\ reqs = [c \in Clients |-> IdleReq]
  /\ routes = EmptyBag

InitResolver ==
  /\ list \in RefLists
  /\ spokenName \in Phrases
  /\ called = FALSE
  /\ result = Null
  /\ normed = <<>>
  /\ ServerIdle

CallFindIdByName ==
  /\ ~called
  /\ called' = TRUE
  /\ result' = findIdByName(list, spokenName)
  /\ UNCHANGED <<list, spokenName, normed>>
  /\ UNCHANGED serverVars

NextResolver == CallFindIdByName

SpecResolver == InitResolver /\ [][NextResolver]_vars

----------------------------------------------------------------------------
(* Normalizer harness: norm called on a string drawn from a bounded set,    *)
(* then on its own result.                                                  *)

\* the characters of the strings: a lower-case letter, an upper-case letter,
\* a digit, a space, a tab and a character outside [a-z0-9 ]
NormChars == {"a", "B", "7", " ", "\t", "!"}

NormInputs == StringsUpTo(NormChars, MaxNormLen) \cup {Undefined}

InitNorm ==
  /\ spokenName \in NormInputs
  /\ list = <<>>
  /\ called = FALSE
  /\ result = Null
  /\ normed = <<>>
  /\ ServerIdle

CallNorm ==
  /\ Len(normed) < 2
  /\ normed' = Append(normed, norm(IF normed = <<>> THEN spokenName ELSE normed[1]))
  /\ UNCHANGED <<list, spokenName, called, result>>
  /\ UNCHANGED serverVars

NextNorm == CallNorm

SpecNorm == InitNorm /\ [][NextNorm]_vars

----------------------------------------------------------------------------
(* Claims about the name resolver *)

ExactAt(i) == norm(list[i].name) = norm(spokenName)
PartialAt(i) ==
  \/ includes(norm(list[i].name), norm(spokenName))
  \/ includes(norm(spokenName), norm(list[i].name))

\* C1: when the canonical phrase is non-empty and some entry's canonical name
\* equals it, findIdByName returns the identifier of the first such entry in
\* list order, even when an earlier entry passes the substring test.
C1_ExactPrecedence ==
  (called /\ norm(spokenName) # <<>> /\ \E i \in DOMAIN list : ExactAt(i))
    => \E i \in DOMAIN list :
         /\ ExactAt(i)
         /\ \A j \in 1..(i - 1) : ~ExactAt(j)
         /\ result = list[i].id

\* an exact match at the second place is returned although the first entry
\* passes the substring test
C1_Witness ==
  /\ called
  /\ Len(list) = 2
  /\ norm(spokenName) # <<>>
  /\ ExactAt(2) /\ ~ExactAt(1) /\ PartialAt(1)
  /\ result = list[2].id

\* C2: when the canonical phrase is non-empty and no entry matches exactly,
\* findIdByName returns the identifier of the first entry in list order whose
\* canonical name contains the canonical phrase or is contained in it.
C2_PartialPass ==
  (/\ called
   /\ norm(spokenName) # <<>>
   /\ \A i \in DOMAIN list : ~ExactAt(i)
   /\ \E i \in DOMAIN list : PartialAt(i))
    => \E i \in DOMAIN list :
         /\ PartialAt(i)
         /\ \A j \in 1..(i - 1) : ~PartialAt(j)
         /\ result = list[i].id

\* the second entry is returned on the strength of its name being contained
\* in the phrase, the first entry matching in neither direction
C2_Witness ==
  /\ called
  /\ Len(list) = 2
  /\ norm(spokenName) # <<>>
  /\ \A i \in DOMAIN list : ~ExactAt(i)
  /\ ~PartialAt(1)
  /\ includes(norm(spokenName), norm(list[2].name))
  /\ ~includes(norm(list[2].name), norm(spokenName))
  /\ norm(list[2].name) # <<>>
  /\ result = list[2].id

\* C3: findIdByName returns null whenever the phrase is missing, empty or
\* canonicalizes to the empty string, whatever the reference list.
C3_EmptyPhraseNoMatch ==
  (called /\ norm(spokenName) = <<>>) => result = Null

\* a phrase of punctuation and spaces against a non-empty list yields null
C3_Witness ==
  /\ called
  /\ list # <<>>
  /\ spokenName # Undefined /\ spokenName # <<>>
  /\ norm(spokenName) = <<>>
  /\ result = Null

\* C4: findIdByName returns null when no entry's canonical name equals the
\* canonical phrase, contains it or is contained in it, and returns an
\* identifier only when one of the two passes matches.
C4_NoMatchIsNull ==
  called =>
    /\ (\A i \in DOMAIN list : ~ExactAt(i) /\ ~PartialAt(i)) => result = Null
    /\ result # Null =>
         \E i \in DOMAIN list : (ExactAt(i) \/ PartialAt(i)) /\ result = list[i].id

\* a non-empty canonical phrase that matches none of two entries
C4_Witness ==
  /\ called
  /\ Len(list) = 2
  /\ norm(spokenName) # <<>>
  /\ \A i \in DOMAIN list : ~ExactAt(i) /\ ~PartialAt(i)
  /\ result = Null

----------------------------------------------------------------------------
(* Claims about the voice handlers *)

\* the names of a save request both resolve against the lists of the revision
SaveResolvable(s) ==
  /\ ~Falsy(findIdByName(IslandList(rev), s.IslandName))
  /\ ~Falsy(findIdByName(CharacterList(rev), s.CharacterName))

\* the sensor slots of a save request are absent or hold a number
SensorsNumeric(s) ==
  /\ isFinite(NumberOrZero(s.UltrasonicValue))
  /\ isFinite(NumberOrZero(s.LidarValue))

\* the names of an update request both resolve
UpdateResolvable(s) ==
  /\ ~Falsy(findIdByName(IslandList(rev), s.NewIsland))
  /\ ~Falsy(findIdByName(CharacterList(rev), s.NewCharacter))

\* client c's request moves on, and not because an awaited call rejected
Proceeds(c) ==
  /\ reqs'[c] # reqs[c]
  /\ reqs'[c].outcome # "upstream_failure"

\* the INSERT, UPDATE or DELETE of client c's voice request runs against the
\* store in this step: run by the route the handler called, or by the
\* handler's own db.execute, whose result the handler answers with at once
StatementStep(c) ==
  /\ reqs[c].op \in {"save", "update", "delete"}
  /\ reqs[c].pc \in {"await_insert", "await_update", "await_delete"}
  /\ IF SelfCalls(reqs[c], rev)
     THEN ~reqs[c].applied /\ reqs'[c].applied
     ELSE Proceeds(c)

\* client c's save, update or delete is answered with its confirmation in
\* this step
Confirms(c) ==
  /\ reqs[c].op \in {"save", "update", "delete"}
  /\ reqs[c].pc \in {"await_insert", "await_update", "await_delete"}
  /\ reqs'[c].outcome = "success"

\* a confirmation reports a statement that has run: in the same step, or in
\* an earlier step of the same request
ConfirmsAfterStatement(c) ==
  Confirms(c) => (StatementStep(c) \/ reqs[c].applied)

\* client c's request has been answered, no awaited call having rejected
Answered(c) ==
  /\ reqs[c].pc = "done"
  /\ reqs[c].outcome # "upstream_failure"

\* C5: an update whose new island or new character does not resolve never
\* issues the UPDATE and is answered with the could-not-match prompt, whatever
\* the store holds (the empty store included).
C5_UnresolvableUpdateIsAmbiguous ==
  \A c \in Clients :
    (reqs[c].op = "update" /\ ~UpdateResolvable(reqs[c].slots))
      => /\ reqs[c].calls.update = 0
         /\ Answered(c) => reqs[c].outcome = "ambiguous"

\* the self-calling server has answered "no scans to update" to an update
\* whose island does not resolve, the store being empty
C5_Witness ==
  \E c \in Clients :
    /\ rev = "selfhttp"
    /\ readings = {}
    /\ reqs[c].op = "update"
    /\ ~UpdateResolvable(reqs[c].slots)
    /\ reqs[c].pc = "done"
    /\ reqs[c].outcome = "not_found"
    /\ reqs[c].calls.update = 0

\* C6: a delete that finds the store empty is answered not-found, has issued
\* no DELETE, and leaves the store empty.
C6_DeleteOnEmptyStore ==
  /\ [](\A c \in Clients :
          (reqs[c].op = "delete" /\ reqs[c].outcome = "not_found")
            => reqs[c].calls.delete = 0)
  /\ [][\A c \in Clients :
          (/\ reqs[c].op = "delete"
           /\ reqs[c].pc = "await_latest"
           /\ readings = {}
           /\ Proceeds(c))
            => /\ reqs'[c].pc = "done"
               /\ reqs'[c].outcome = "not_found"
               /\ reqs'[c].speak = NoScansToDelete(rev)
               /\ reqs'[c].calls.delete = 0
               /\ readings' = {}]_vars

\* a delete has been answered not-found over the empty store
C6_Witness ==
  \E c \in Clients :
    /\ readings = {}
    /\ reqs[c].op = "delete"
    /\ reqs[c].pc = "done"
    /\ reqs[c].outcome = "not_found"
    /\ reqs[c].calls.select = 1
    /\ reqs[c].calls.delete = 0

\* C7: an update whose names both resolve and that finds the store empty is
\* answered not-found and has issued no UPDATE.
C7_UpdateOnEmptyStore ==
  /\ [](\A c \in Clients :
          (reqs[c].op = "update" /\ reqs[c].outcome = "not_found")
            => reqs[c].calls.update = 0)
  /\ [][\A c \in Clients :
          (/\ reqs[c].op = "update"
           /\ reqs[c].pc = "await_latest"
           /\ readings = {}
           /\ Proceeds(c)
           /\ UpdateResolvable(reqs[c].slots))
            => /\ reqs'[c].pc = "done"
               /\ reqs'[c].outcome = "not_found"
               /\ reqs'[c].calls.update = 0
               /\ readings' = {}]_vars

\* an update to Nami on Alabasta has been answered not-found over the empty
\* store
C7_Witness ==
  \E c \in Clients :
    /\ readings = {}
    /\ reqs[c].op = "update"
    /\ UpdateResolvable(reqs[c].slots)
    /\ reqs[c].pc = "done"
    /\ reqs[c].outcome = "not_found"
    /\ reqs[c].calls.update = 0

\* the insert a save request has issued carries the identifiers the resolver
\* returns for its slots, and the request issues one insert
SaveInsertsOnce(c) ==
  /\ reqs[c].calls.insert <= 1
  /\ reqs[c].pc = "await_insert"
       => /\ reqs[c].calls.insert = 1
          /\ reqs[c].island_id = findIdByName(IslandList(rev), reqs[c].slots.IslandName)
          /\ reqs[c].character_id = findIdByName(CharacterList(rev), reqs[c].slots.CharacterName)
  /\ Answered(c)
       => /\ reqs[c].outcome = "success"
          /\ reqs[c].calls.insert = 1

\* the insert of a save request adds one reading, of the resolved island and
\* character
SaveGainsOne(c) ==
  \E r \in readings' :
    /\ r \notin readings
    /\ readings' = readings \cup {r}
    /\ Cardinality(readings') = Cardinality(readings) + 1
    /\ r.island_id = findIdByName(IslandList(rev), reqs[c].slots.IslandName)
    /\ r.character_id = findIdByName(CharacterList(rev), reqs[c].slots.CharacterName)

\* C8 as stated: a save whose island and character both resolve issues exactly
\* one insert, carrying the identifiers the resolver returns for the two
\* slots, and the store gains exactly one reading.
C8_SaveInsertsOnce ==
  /\ [](\A c \in Clients :
          (reqs[c].op = "save" /\ SaveResolvable(reqs[c].slots))
            => SaveInsertsOnce(c))
  /\ [][\A c \in Clients :
          /\ (/\ reqs[c].op = "save"
              /\ StatementStep(c)
              /\ SaveResolvable(reqs[c].slots))
               => SaveGainsOne(c)
          /\ ConfirmsAfterStatement(c)]_vars

\* C8: a save whose island and character both resolve, and whose sensor slots
\* are absent or numeric, issues exactly one insert, carrying the identifiers the resolver returns for the two
\* slots, and the store gains exactly one reading.
C8_NumericSaveInsertsOnce ==
  /\ [](\A c \in Clients :
          (/\ reqs[c].op = "save"
           /\ SaveResolvable(reqs[c].slots)
           /\ SensorsNumeric(reqs[c].slots))
            => SaveInsertsOnce(c))
  /\ [][\A c \in Clients :
          /\ (/\ reqs[c].op = "save"
              /\ StatementStep(c)
              /\ SaveResolvable(reqs[c].slots)
              /\ SensorsNumeric(reqs[c].slots))
               => SaveGainsOne(c)
          /\ ConfirmsAfterStatement(c)]_vars

\* a save for Zoro on East Blue has been answered "Saved" after one insert,
\* and the store holds a reading of island 1 and character 2
C8_Witness ==
  \E c \in Clients :
    /\ reqs[c].op = "save"
    /\ SaveResolvable(reqs[c].slots)
    /\ SensorsNumeric(reqs[c].slots)
    /\ reqs[c].pc = "done"
    /\ reqs[c].outcome = "success"
    /\ reqs[c].calls.insert = 1
    /\ \E r \in readings : r.island_id = 1 /\ r.character_id = 2

\* the prompts a save with an unresolved name is answered with
SaveExamplePrompts ==
  { Lit("Tell me an island and a character. For example: save a scan for Luffy on East Blue."),
    Lit("Tell me an island and a character, like: save a scan for Zoro on Alabasta.") }

\* C9: a save whose island or character is missing or does not resolve issues
\* no insert, leaves the store as it is, and is answered with a prompt that
\* gives an example phrase, not with an error.
C9_UnresolvableSaveInsertsNothing ==
  /\ [](\A c \in Clients :
          (reqs[c].op = "save" /\ ~SaveResolvable(reqs[c].slots))
            => /\ reqs[c].calls.insert = 0
               /\ reqs[c].pc # "await_insert"
               /\ Answered(c)
                    => /\ reqs[c].outcome = "ambiguous"
                       /\ reqs[c].speak \in SaveExamplePrompts
                       /\ reqs[c].reprompt # <<>>)
  /\ [][\A c \in Clients :
          (/\ reqs'[c].op = "save"
           /\ reqs'[c] # reqs[c]
           /\ ~SaveResolvable(reqs'[c].slots))
            => readings' = readings]_vars

\* a save without a character name has been answered with the prompt, no
\* insert issued
C9_Witness ==
  \E c \in Clients :
    /\ reqs[c].op = "save"
    /\ reqs[c].slots.CharacterName = Undefined
    /\ ~Falsy(findIdByName(IslandList(rev), reqs[c].slots.IslandName))
    /\ reqs[c].pc = "done"
    /\ reqs[c].outcome = "ambiguous"
    /\ reqs[c].speak \in SaveExamplePrompts
    /\ reqs[c].calls.insert = 0

----------------------------------------------------------------------------
(* Claims about the latest-record locator *)

\* row is the stored reading of the greatest identifier
IsMaxReading(row, rs) ==
  \E r \in rs :
    /\ \A o \in rs : o.reading_id <= r.reading_id
    /\ row.reading_id = r.reading_id

\* C10: over every store a sequence of inserts and deletes leaves, the locator
\* returns no row exactly when the store is empty and otherwise the reading of
\* the maximum identifier; an insert is assigned an identifier above all
\* stored ones, and the locator then returns the inserted reading; the query
\* handler answers not-found exactly over the empty store.
C10_LocatorReturnsMaxId ==
  /\ [](/\ (SelectLatestJoined(readings) = <<>>) <=> (readings = {})
        /\ (SelectLatestId(readings) = <<>>) <=> (readings = {})
        /\ readings # {}
             => /\ IsMaxReading(SelectLatestJoined(readings)[1], readings)
                /\ IsMaxReading(SelectLatestId(readings)[1], readings)
                /\ \E r \in readings :
                     /\ r.reading_id = SelectLatestJoined(readings)[1].reading_id
                     /\ r.island_id = SelectLatestJoined(readings)[1].island_id
                     /\ r.character_id = SelectLatestJoined(readings)[1].character_id)
  /\ [][/\ Cardinality(readings') > Cardinality(readings)
             => \E r \in readings' \ readings :
                  /\ \A o \in readings : o.reading_id < r.reading_id
                  /\ SelectLatestJoined(readings')[1].reading_id = r.reading_id
                  /\ SelectLatestId(readings')[1].reading_id = r.reading_id
        /\ \A c \in Clients :
             (reqs[c].op = "get" /\ reqs[c].pc = "await_latest" /\ Proceeds(c))
               => (reqs'[c].outcome = "not_found") <=> (readings = {})]_vars

\* two readings are stored, the locator returns the second, and a query has
\* been answered with it
C10_Witness ==
  /\ Cardinality(readings) = 2
  /\ SelectLatestJoined(readings)[1].reading_id = 2
  /\ \E c \in Clients :
       /\ reqs[c].op = "get"
       /\ reqs[c].pc = "done"
       /\ reqs[c].outcome = "success"

----------------------------------------------------------------------------
(* Claims about failures of awaited calls *)

VoiceOps == {"get", "save", "update", "delete"}

\* the apologies of the catch blocks and of the skills' ErrorHandler
ApologyTexts ==
  { Lit("Sorry, something went wrong."),
    Lit("Sorry, I could not retrieve your latest scan right now."),
    Lit("Sorry, I couldn't retrieve your latest scan."),
    Lit("Sorry, I could not save the scan right now."),
    Lit("Sorry, I couldn't save a scan right now."),
    Lit("Sorry, I could not update your latest scan right now."),
    Lit("Sorry, I couldn't update your latest scan."),
    Lit("Sorry, I could not delete your latest scan right now."),
    Lit("Sorry, I couldn't delete your latest scan.") }

\* a voice request whose awaited call failed is answered, with an apology
FailureIsSpoken ==
  \A c \in Clients :
    (reqs[c].op \in VoiceOps /\ reqs[c].outcome = "upstream_failure")
      => /\ reqs[c].pc = "done"
         /\ reqs[c].speak \in ApologyTexts
         /\ reqs[c].status = 0

\* an awaited call of client c's voice request fails in this step
FailsNow(c) ==
  /\ reqs[c].op \in VoiceOps
  /\ reqs[c].outcome # "upstream_failure"
  /\ reqs'[c].outcome = "upstream_failure"

\* the step leaves the store and the other clients' requests as they are
OnlyRequestChanges(c) ==
  /\ readings' = readings
  /\ nextId' = nextId
  /\ \A d \in Clients \ {c} : reqs'[d] = reqs[d]

\* the failed request, once answered, leaves no trace: the client is idle
\* again and the store unchanged
FailedRequestRetires(c) ==
  (reqs[c].outcome = "upstream_failure" /\ reqs'[c] # reqs[c])
    => /\ reqs'[c] = IdleReq
       /\ readings' = readings
       /\ nextId' = nextId

\* the statement steps of the requests that go on: the store is changed only
\* by a request whose awaited statement returns to it with a result
StoreChangedByRequest ==
  (readings' # readings \/ nextId' # nextId)
    => \E c \in Clients :
         \/ StatementStep(c)
         \/ /\ reqs[c].pc \in {"await_insert", "await_update", "await_delete"}
            /\ reqs'[c].pc = "done"
            /\ reqs'[c].outcome # "upstream_failure"

\* a route whose caller has given up settles in this step
AbandonedRouteSettles ==
  /\ rev = "selfhttp"
  /\ BagCardinality(routes') < BagCardinality(routes)
  /\ routes' \sqsubseteq routes
  /\ reqs' = reqs

\* C11 as stated: a failure of a call awaited by a voice handler (a query of
\* the store or a request to the server's own route) is answered with a
\* spoken apology, is terminal to that request only, and leaves the store and
\* the other requests as if the failed request had not occurred: it has not
\* changed the store, nothing of it is left to run, and the store changes
\* only by requests that go on.
C11_FailureIsApology ==
  /\ []FailureIsSpoken
  /\ [][/\ \A c \in Clients :
            /\ FailsNow(c) => /\ OnlyRequestChanges(c)
                              /\ routes' = routes
                              /\ ~reqs[c].applied
            /\ FailedRequestRetires(c)
         /\ StoreChangedByRequest]_vars

\* C11: a failure of a call awaited by a voice handler is answered with a
\* spoken apology and is terminal to that request only; the step that answers
\* leaves the store and the other requests as they are, the failed request
\* has not changed the store and nothing of it is left to run, unless the
\* failed call is a mutating request to the server's own route: that route
\* may have run its statement before the apology, or goes on and may run it
\* after.
C11_FailureIsApologyUnlessSelfCall ==
  /\ []FailureIsSpoken
  /\ [][/\ \A c \in Clients :
            /\ FailsNow(c) => OnlyRequestChanges(c)
            /\ (/\ FailsNow(c)
                /\ ~(/\ rev = "selfhttp"
                     /\ reqs[c].pc \in {"await_insert", "await_update", "await_delete"}))
                 => (routes' = routes /\ ~reqs[c].applied)
            /\ FailedRequestRetires(c)
         /\ (StoreChangedByRequest \/ AbandonedRouteSettles)]_vars

\* the server without try/catch has answered a delete whose call failed with
\* the ErrorHandler's apology, the store holding a reading, while the other
\* client's request is in flight
C11_Witness ==
  \E c \in Clients :
    /\ rev = "direct"
    /\ readings # {}
    /\ reqs[c].op = "delete"
    /\ reqs[c].pc = "done"
    /\ reqs[c].outcome = "upstream_failure"
    /\ reqs[c].speak = Lit("Sorry, something went wrong.")
    /\ \E d \in Clients \ {c} : reqs[d].pc \in {"await_latest", "await_delete"}

----------------------------------------------------------------------------
(* Claims about the validation of the REST routes *)

\* a body field holds a number: a JSON number, or a string of decimal digits
NumericField(v) ==
  \/ v.t = "number"
  \/ v.t = "string" /\ v.s # <<>> /\ \A i \in DOMAIN v.s : v.s[i] \in Range(DigitChars)

\* a path segment is an integer: a string of decimal digits
IntegerSegment(p) ==
  p # <<>> /\ \A i \in DOMAIN p : p[i] \in Range(DigitChars)

\* a required field of the body of POST /addReading is missing or non-numeric
MalformedAddReading(b) ==
  \/ ~NumericField(b.ultrasonic_value)
  \/ ~NumericField(b.lidar_value)
  \/ ~NumericField(b.island_id)
  \/ ~NumericField(b.character_id)

\* C12: POST /addReading answers a body with a missing or non-numeric required
\* field (a string that is no number, null, the empty string) with a client
\* error and issues no INSERT, in every server that declares the route.
C12_AddReadingRejectsMalformed ==
  \A c \in Clients :
    (/\ rev \in RestRevisions
     /\ reqs[c].op = "addReading"
     /\ MalformedAddReading(reqs[c].body))
      => /\ reqs[c].calls.insert = 0
         /\ reqs[c].pc = "done" => reqs[c].status = 400

\* src/server.js has answered 200 to a body whose ultrasonic_value is null,
\* after one INSERT, and the store holds the reading with value 0
C12_Witness ==
  \E c \in Clients :
    /\ rev = "integrated"
    /\ reqs[c].op = "addReading"
    /\ reqs[c].body.ultrasonic_value = JsNull
    /\ reqs[c].pc = "done"
    /\ reqs[c].status = 200
    /\ reqs[c].calls.insert = 1
    /\ \E r \in readings : r.ultrasonic_value = 0

\* C13: PUT /updateReading/:id and DELETE /deleteReading/:id answer a request
\* whose path id, island_id or character_id is missing or no integer with a
\* client error and issue no statement, in every server that declares them.
C13_RoutesValidateIdentifiers ==
  \A c \in Clients :
    /\ (/\ rev \in RestRevisions
        /\ reqs[c].op = "updateReading"
        /\ \/ ~IntegerSegment(reqs[c].param)
           \/ ~NumericField(reqs[c].body.island_id)
           \/ ~NumericField(reqs[c].body.character_id))
         => /\ reqs[c].calls.update = 0
            /\ reqs[c].pc = "done" => reqs[c].status = 400
    /\ (/\ rev \in RestRevisions
        /\ reqs[c].op = "deleteReading"
        /\ ~IntegerSegment(reqs[c].param))
         => /\ reqs[c].calls.delete = 0
            /\ reqs[c].pc = "done" => reqs[c].status = 400

\* the first server of part_000 has issued the DELETE for the path id "abc"
C13_Witness ==
  \E c \in Clients :
    /\ rev = "selfhttp"
    /\ reqs[c].op = "deleteReading"
    /\ ~IntegerSegment(reqs[c].param)
    /\ reqs[c].calls.delete = 1

----------------------------------------------------------------------------
(* Claims about requests no handler takes *)

\* C14: an intent request whose intent name no registered handler takes is
\* answered with a generic spoken response that prompts the user to retry; no
\* call to the store is issued and no raw error is returned.
C14_UnhandledIntentFallsBack ==
  \A c \in Clients :
    (reqs[c].op \in OtherIntentNames /\ reqs[c].op \notin RegisteredIntents(rev))
      => /\ reqs[c].pc = "done"
         /\ reqs[c].speak # <<>>
         /\ reqs[c].reprompt # <<>>
         /\ reqs[c].status = 0
         /\ reqs[c].calls = NoCalls

\* the server of part_002 has answered a SaveScanIntent, for which it
\* registers no handler, with the apology alone
C14_Witness ==
  \E c \in Clients :
    /\ rev = "skill_only"
    /\ reqs[c].op = "SaveScanIntent"
    /\ reqs[c].pc = "done"
    /\ reqs[c].speak = Lit("Sorry, something went wrong.")
    /\ reqs[c].reprompt = <<>>
    /\ reqs[c].calls = NoCalls

----------------------------------------------------------------------------
(* Claims about the query of the latest reading *)

\* the spoken text has the part seg
Says(speak, seg) == \E i \in DOMAIN speak : speak[i] = seg

\* the spoken text names the character, the island and the two sensor values
\* of reading r
ReportsReading(speak, r) ==
  /\ Says(speak, NameOfId(CharacterRows, r.character_id))
  /\ Says(speak, NameOfId(IslandRows, r.island_id))
  /\ Says(speak, Lit(ToString(r.ultrasonic_value)))
  /\ Says(speak, Lit(ToString(r.lidar_value)))

\* C15: a query that finds the store non-empty is answered with a text that
\* contains the name of the character and of the island the reading of the
\* maximum identifier references, and that reading's ultrasonic and LiDAR
\* values.
C15_QueryReportsLatest ==
  [][\A c \in Clients :
       (/\ reqs[c].op = "get"
        /\ reqs[c].pc = "await_latest"
        /\ readings # {}
        /\ Proceeds(c))
         => /\ reqs'[c].pc = "done"
            /\ reqs'[c].outcome = "success"
            /\ \E r \in readings :
                 /\ \A o \in readings : o.reading_id <= r.reading_id
                 /\ ReportsReading(reqs'[c].speak, r)]_vars

\* a query has been answered "Zoro on East Blue, ultrasonic 5, LiDAR 0", the
\* latest of two readings being the one a save with UltrasonicValue 5 made
C15_Witness ==
  \E c \in Clients :
    /\ reqs[c].op = "get"
    /\ reqs[c].pc = "done"
    /\ reqs[c].outcome = "success"
    /\ Says(reqs[c].speak, <<"Z","o","r","o">>)
    /\ Says(reqs[c].speak, <<"E","a","s","t"," ","B","l","u","e">>)
    /\ Says(reqs[c].speak, Lit("5"))
    /\ Says(reqs[c].speak, Lit("0"))
    /\ Cardinality(readings) = 2
    /\ \E r \in readings : r.reading_id = 2 /\ r.ultrasonic_value = 5

----------------------------------------------------------------------------
(* Claims about the normalizer *)

\* C16: norm is idempotent: norm applied to its own result returns it
\* unchanged, for every input string.
C16_NormIdempotent ==
  Len(normed) = 2 => normed[2] = normed[1]

\* norm has been applied twice to a string it changes to a non-empty one
C16_Witness ==
  /\ Len(normed) = 2
  /\ spokenName # Undefined
  /\ Len(spokenName) = MaxNormLen
  /\ normed[1] # spokenName
  /\ normed[1] # <<>>
  /\ normed[2] = normed[1]

\* s is in canonical form: characters of [a-z0-9 ] only, no space at either
\* end, no two spaces in a row
IsCanonical(s) ==
  /\ \A i \in DOMAIN s :
       s[i] \in Range(LowerLetters) \cup Range(DigitChars) \cup {" "}
  /\ s # <<>> => s[1] # " " /\ s[Len(s)] # " "
  /\ \A i \in 1..(Len(s) - 1) : ~(s[i] = " " /\ s[i + 1] = " ")

\* C17: norm returns a string for every input, undefined and the empty string
\* giving the empty string, and the result is in canonical form.
C17_NormCanonical ==
  Len(normed) >= 1
    => /\ normed[1] \in Seq(Range(LowerLetters) \cup Range(DigitChars) \cup {" "})
       /\ IsCanonical(normed[1])
       /\ spokenName \in {Undefined, <<>>} => normed[1] = <<>>

\* norm has turned "a", two spaces, "B" into "a b"
C17_Witness ==
  /\ Len(normed) >= 1
  /\ spokenName = <<"a", " ", " ", "B">>
  /\ normed[1] = <<"a", " ", "b">>

----------------------------------------------------------------------------
(* Claims about concurrent requests *)

\* client c's update or delete has located its reading and awaits its
\* statement
AwaitsMutation(c) ==
  \/ reqs[c].op = "update" /\ reqs[c].pc = "await_update"
  \/ reqs[c].op = "delete" /\ reqs[c].pc = "await_delete"

\* the statement of client c's update or delete runs in this step
Mutates(c) == AwaitsMutation(c) /\ StatementStep(c)

\* some stored reading has an identifier above id
Outdated(id) == \E r \in readings : r.reading_id > id

\* C18: update and delete locate the reading of the maximum identifier and
\* later apply their statement to the identifier they located, without lock,
\* version check or second look: readings of other identifiers are left as
\* they are, also when an insert of another request has meanwhile made one of
\* them the reading of the maximum identifier.
C18_MutatesLocatedReading ==
  [][\A c \in Clients :
       /\ (/\ reqs[c].op \in {"update", "delete"}
           /\ reqs[c].pc = "await_latest"
           /\ readings # {}
           /\ Proceeds(c))
            => /\ reqs'[c].pc \in {"await_update", "await_delete", "await_lists"}
               /\ \A r \in readings : r.reading_id <= reqs'[c].reading_id
               /\ \E r \in readings : r.reading_id = reqs'[c].reading_id
       /\ Mutates(c)
            => /\ \A r \in readings :
                    r.reading_id # reqs[c].reading_id => r \in readings'
               /\ reqs[c].op = "delete"
                    => readings' = {r \in readings : r.reading_id # reqs[c].reading_id}
               /\ reqs[c].op = "update"
                    => \A r \in readings :
                         r.reading_id = reqs[c].reading_id
                           => [r EXCEPT !.island_id = reqs[c].island_id,
                                        !.character_id = reqs[c].character_id] \in readings'
               /\ Confirms(c) \/ SelfCalls(reqs[c], rev)
       /\ ConfirmsAfterStatement(c)]_vars

\* a delete that located reading 1 is about to run its statement, an insert of
\* another request having stored reading 2 since
C18_Witness ==
  \E c \in Clients :
    /\ reqs[c].op = "delete"
    /\ reqs[c].pc = "await_delete"
    /\ reqs[c].reading_id = 1
    /\ \E r \in readings : r.reading_id = 1
    /\ Outdated(reqs[c].reading_id)

\* the stored readings the statement of client c's request applies to
Located(c) == {r \in readings : r.reading_id = reqs[c].reading_id}

\* C19 as stated: whenever a delete or an update replies with its
\* confirmation, its statement removed or changed exactly one reading, in
\* every interleaving of requests.
C19_ConfirmationMeansOneReading ==
  [][\A c \in Clients :
       /\ Mutates(c)
            => /\ Cardinality(Located(c)) = 1
               /\ reqs[c].op = "delete"
                    => Cardinality(readings') = Cardinality(readings) - 1
       /\ ConfirmsAfterStatement(c)]_vars

\* C19: whenever a delete or an update replies with its confirmation, its
\* statement was applied to the identifier the request had located and removed
\* or changed at most one reading: exactly one if the located reading was
\* still stored when the statement ran, none if a concurrent delete had
\* removed it since.
C19_ConfirmationMeansAtMostOneReading ==
  /\ [](\A r1, r2 \in readings : r1.reading_id = r2.reading_id => r1 = r2)
  /\ [][\A c \in Clients :
          /\ Mutates(c)
               => /\ Cardinality(Located(c)) <= 1
                  /\ reqs[c].op = "delete"
                       => /\ readings' = readings \ Located(c)
                          /\ Cardinality(readings') =
                               Cardinality(readings) - Cardinality(Located(c))
                  /\ reqs[c].op = "update"
                       => /\ Cardinality(readings') = Cardinality(readings)
                          /\ readings \ Located(c) \subseteq readings'
          /\ ConfirmsAfterStatement(c)]_vars

\* both clients' deletes have replied with the confirmation, and only one
\* reading was ever stored
C19_Witness ==
  /\ nextId = 2
  /\ readings = {}
  /\ \A c \in Clients :
       /\ reqs[c].op = "delete"
       /\ reqs[c].pc = "done"
       /\ reqs[c].outcome = "success"
       /\ reqs[c].speak = Lit("Deleted your latest scan.")

\* row with the island and character references of the update request q
Rereferenced(row, q) ==
  [row EXCEPT !.island_id = findIdByName(IslandList(rev), q.slots.NewIsland),
              !.character_id = findIdByName(CharacterList(rev), q.slots.NewCharacter)]

\* C20: with no other request in flight and no route left running, the
\* statement of an update, which its confirmation reports, changes the reading of the maximum identifier and no other:
\* its island and character references become the resolved identifiers, its
\* identifier and both sensor values stay, every other reading and the number
\* of readings stay; the other steps of the update leave the store alone.
C20_UpdateChangesOnlyReferences ==
  [][\A c \in SoloClients :
       /\ (reqs[c].op = "update" /\ reqs'[c] # reqs[c] /\ ~Mutates(c))
            => readings' = readings
       /\ ConfirmsAfterStatement(c)
       /\ (reqs[c].op = "update" /\ Mutates(c))
            => \E r \in readings :
                 /\ IsMaxReading(r, readings)
                 /\ r.reading_id = reqs[c].reading_id
                 /\ UpdateResolvable(reqs[c].slots)
                 /\ readings' = (readings \ {r}) \cup {Rereferenced(r, reqs[c])}
                 /\ Rereferenced(r, reqs[c]).reading_id = r.reading_id
                 /\ Rereferenced(r, reqs[c]).ultrasonic_value = r.ultrasonic_value
                 /\ Rereferenced(r, reqs[c]).lidar_value = r.lidar_value
                 /\ Cardinality(readings') = Cardinality(readings)]_vars

\* an update has been confirmed over two readings: the later one carries the
\* resolved references, the earlier one other references
C20_Witness ==
  /\ reqs["c1"].op = "update"
  /\ reqs["c1"].pc = "done"
  /\ reqs["c1"].outcome = "success"
  /\ \E r1, r2 \in readings :
       /\ r1.reading_id = 1
       /\ r2.reading_id = 2
       /\ r2 = Rereferenced(r2, reqs["c1"])
       /\ r1 # Rereferenced(r1, reqs["c1"])

\* the locators of revision rev answer over the store rs with the reading of
\* the highest identifier in rs, or with no row when rs is empty
LocatorsReturnMaxOf(rs) ==
  \A op \in {"get", "update", "delete"} :
    IF rs = {} THEN LatestRows(rev, op, rs) = <<>>
    ELSE /\ LatestRows(rev, op, rs) # <<>>
         /\ IsMaxReading(LatestRows(rev, op, rs)[1], rs)

\* C21: with no other request in flight and no route left running, the
\* statement of a delete, which its confirmation reports, removes the reading of the maximum identifier and no other;
\* afterwards the locator returns the reading of the next-highest identifier,
\* or none if the store has become empty; each confirmed delete lowers the
\* number of readings by one, and a delete that finds the store empty is
\* answered not-found.
C21_DeleteRemovesOnlyLatest ==
  [][\A c \in SoloClients :
       /\ (reqs[c].op = "delete" /\ reqs'[c] # reqs[c] /\ ~Mutates(c))
            => readings' = readings
       /\ ConfirmsAfterStatement(c)
       /\ (reqs[c].op = "delete" /\ Mutates(c))
            => \E r \in readings :
                 /\ IsMaxReading(r, readings)
                 /\ r.reading_id = reqs[c].reading_id
                 /\ readings' = readings \ {r}
                 /\ Cardinality(readings') = Cardinality(readings) - 1
                 /\ \A o \in readings' : o.reading_id < r.reading_id
                 /\ LocatorsReturnMaxOf(readings')
       /\ (reqs[c].op = "delete" /\ Proceeds(c) /\ ~AwaitsMutation(c))
            => /\ readings' = readings
               /\ (reqs[c].pc = "await_latest" /\ readings = {})
                    => reqs'[c].outcome = "not_found"
               /\ (reqs[c].pc = "await_latest" /\ readings # {})
                    => reqs'[c].pc = "await_delete"]_vars

\* a delete has been confirmed over two readings: the earlier one is left, and
\* is the one the locator now returns
C21_Witness ==
  /\ reqs["c1"].op = "delete"
  /\ reqs["c1"].pc = "done"
  /\ reqs["c1"].outcome = "success"
  /\ nextId = 3
  /\ Cardinality(readings) = 1
  /\ \A r \in readings : r.reading_id = 1
  /\ SelectLatestId(readings) = << [reading_id |-> 1] >>

----------------------------------------------------------------------------
(* Claims about the requests that only read, or only speak *)

\* the requests answered by a handler that speaks a fixed text, or nothing
FixedOps ==
  {"LaunchRequest", "SessionEndedRequest", "AMAZON.HelpIntent",
   "AMAZON.CancelIntent", "AMAZON.StopIntent", "AMAZON.FallbackIntent"}

\* the request of client c that takes this step
StepOp(c) == IF reqs[c].pc = "idle" THEN reqs'[c].op ELSE reqs[c].op

\* C22: no step of a query of the latest reading, and no step of a request
\* answered by the Launch, Help, Fallback, Cancel/Stop or SessionEnded handler,
\* changes the stored readings or the identifier counter; a query issues the
\* SELECT alone, and the fixed-text handlers issue no statement at all.
C22_ReadOnlyRequests ==
  /\ [](\A c \in SoloClients :
          /\ reqs[c].op \in FixedOps
               => (reqs[c].pc = "done" /\ reqs[c].calls = NoCalls)
          /\ reqs[c].op = "get"
               => /\ reqs[c].calls.select = 1
                  /\ reqs[c].calls.insert = 0
                  /\ reqs[c].calls.update = 0
                  /\ reqs[c].calls.delete = 0)
  /\ [][\A c \in SoloClients :
          (reqs'[c] # reqs[c] /\ StepOp(c) \in FixedOps \cup {"get"})
            => /\ readings' = readings
               /\ nextId' = nextId]_vars

\* a query has been answered with the latest of two stored readings, which
\* are both still stored
C22_Witness ==
  /\ reqs["c1"].op = "get"
  /\ reqs["c1"].pc = "done"
  /\ reqs["c1"].outcome = "success"
  /\ {r.reading_id : r \in readings} = {1, 2}

----------------------------------------------------------------------------
(* Claims about retries *)

\* the INSERT, UPDATE and DELETE statements request q has issued
MutationsIssued(q) == q.calls.insert + q.calls.update + q.calls.delete

\* C23: a voice request issues at most one INSERT, UPDATE or DELETE; when an
\* awaited call fails or times out the request is answered at once with the
\* apology, no statement being issued again, and an answered request issues
\* none either.
C23_NoRetry ==
  /\ [](\A c \in Clients :
          reqs[c].op \in VoiceOps
            => /\ MutationsIssued(reqs[c]) <= 1
               /\ reqs[c].pc \in {"await_insert", "await_update", "await_delete"}
                    => MutationsIssued(reqs[c]) = 1)
  /\ [][\A c \in Clients :
          /\ (/\ reqs[c].op \in VoiceOps
              /\ reqs[c].pc \in {"await_latest", "await_lists", "await_insert",
                                 "await_update", "await_delete"}
              /\ reqs'[c] # reqs[c]
              /\ ~Proceeds(c))
               => /\ reqs'[c].pc = "done"
                  /\ reqs'[c].outcome = "upstream_failure"
                  /\ reqs'[c].speak \in ApologyTexts
                  /\ reqs'[c].calls = reqs[c].calls
          /\ (reqs[c].op \in VoiceOps /\ reqs[c].pc = "done" /\ reqs'[c] # reqs[c])
               => reqs'[c] = IdleReq]_vars

\* the self-calling server has answered an update whose PUT timed out with the
\* apology, having issued the one PUT
C23_Witness ==
  \E c \in Clients :
    /\ rev = "selfhttp"
    /\ reqs[c].op = "update"
    /\ reqs[c].pc = "done"
    /\ reqs[c].outcome = "upstream_failure"
    /\ reqs[c].speak = Lit("Sorry, I couldn't update your latest scan.")
    /\ reqs[c].calls.update = 1
    /\ \E r \in readings : r.island_id = 2 /\ r.character_id = 3

----------------------------------------------------------------------------
(* Claims about the sensor values of a saved reading *)

\* C24: the reading a save inserts carries, for each sensor, the number of
\* the sensor slot when the slot is provided, and 0 when it is absent.
C24_SaveStoresSensorSlots ==
  [][\A c \in SoloClients :
       (reqs[c].op = "save" /\ reqs[c].pc = "await_insert" /\ readings' # readings)
         => \E r \in readings' \ readings :
              /\ r.ultrasonic_value = NumberOrZero(reqs[c].slots.UltrasonicValue).val
              /\ r.lidar_value = NumberOrZero(reqs[c].slots.LidarValue).val]_vars

\* the self-calling server has answered "Saved" to a save whose ultrasonic
\* slot is 5, and the reading it stored has the ultrasonic value 0
C24_Witness ==
  /\ rev = "selfhttp"
  /\ reqs["c1"].op = "save"
  /\ reqs["c1"].pc = "done"
  /\ reqs["c1"].outcome = "success"
  /\ reqs["c1"].slots.UltrasonicValue = <<"5">>
  /\ readings = {[reading_id |-> 1, ultrasonic_value |-> 0, lidar_value |-> 0,
                  island_id |-> 1, character_id |-> 2]}

----------------------------------------------------------------------------
(* Claims about empty canonical names in the reference list *)

\* C25: an identifier findIdByName returns is that of an entry whose canonical
\* name is non-empty and equals the canonical phrase, contains it or is
\* contained in it, also when the list has an entry whose name canonicalizes
\* to the empty string.
C25_NoMatchOnEmptyName ==
  (called /\ result # Null)
    => \E i \in DOMAIN list :
         /\ result = list[i].id
         /\ norm(list[i].name) # <<>>
         /\ (ExactAt(i) \/ PartialAt(i))

\* the phrase "a" has been resolved to the first entry, whose name "!" has the
\* empty canonical form, no entry being named "a"
C25_Witness ==
  /\ called
  /\ Len(list) >= 1
  /\ norm(list[1].name) = <<>>
  /\ norm(spokenName) = <<"a">>
  /\ \A i \in DOMAIN list : ~ExactAt(i)
  /\ result = list[1].id

----------------------------------------------------------------------------
(* Claims about the dispatch of requests to handlers *)

\* the handlers among hs whose canHandle holds for env
AbleHandlers(hs, env) == {i \in DOMAIN hs : canHandle(hs[i], env)}

\* the handlers hs in the opposite order of registration
Reversed(hs) == [i \in DOMAIN hs |-> hs[Len(hs) + 1 - i]]

\* the request envelope of request q
EnvelopeOf(q) ==
  IF q.op = "get" THEN [type |-> "IntentRequest", intent |-> "GetCharacterIntent"]
  ELSE IF q.op = "delete" THEN [type |-> "IntentRequest", intent |-> "DeleteScanIntent"]
  ELSE IF q.op \in {"LaunchRequest", "SessionEndedRequest"}
  THEN [type |-> q.op, intent |-> ""]
  ELSE [type |-> "IntentRequest", intent |-> q.op]

\* the requests that reach a store handler of the skill or a REST route
StoreOps ==
  {"get", "save", "update", "delete", "addReading", "updateReading", "deleteReading"}

\* C26: for every request envelope at most one handler registered with the
\* skill answers canHandle with true, so the handler selected is the same
\* when the handlers are registered in the opposite order; the response to a
\* request that reaches no store handler is that of the handler so selected.
C26_DispatchUnambiguous ==
  /\ \A env \in Envelopes :
       /\ Cardinality(AbleHandlers(RequestHandlers(rev), env)) <= 1
       /\ SelectHandler(Reversed(RequestHandlers(rev)), env)
            = SelectHandler(RequestHandlers(rev), env)
  /\ \A c \in SoloClients :
       (reqs[c].pc = "done" /\ reqs[c].op \notin {"none"} \cup StoreOps)
         => reqs[c] = SkillHandle([IdleReq EXCEPT !.op = reqs[c].op], rev,
                        SelectHandler(Reversed(RequestHandlers(rev)), EnvelopeOf(reqs[c])))

\* the integrated server has answered a stop request with the farewell of the
\* one handler that takes both the cancel and the stop intent
C26_Witness ==
  /\ rev = "integrated"
  /\ reqs["c1"].op = "AMAZON.StopIntent"
  /\ reqs["c1"].pc = "done"
  /\ reqs["c1"].speak = Lit("Goodbye.")
  /\ AbleHandlers(RequestHandlers(rev), EnvelopeOf(reqs["c1"])) = {7}

----------------------------------------------------------------------------
(* Claims about the two locators of the integrated server *)

\* every stored reading references an island and a character that exist
ReferencesExist ==
  \A r \in readings : ForeignKeysHold(r.island_id, r.character_id)

\* C27: in the integrated server, over every store whose readings reference
\* existing islands and characters, the joined locator of the query and the
\* identifier locator of update and delete return no row together, and
\* otherwise the same reading identifier, which is the identifier an update or
\* a delete goes on with.
C27_LocatorsAgree ==
  (rev = "integrated" /\ ReferencesExist)
    => /\ (SelectLatestJoined(readings) = <<>>) <=> (SelectLatestId(readings) = <<>>)
       /\ readings # {}
            => SelectLatestJoined(readings)[1].reading_id
                 = SelectLatestId(readings)[1].reading_id
       /\ \A c \in Clients :
            (reqs[c].pc \in {"await_update", "await_delete"})
              => /\ LatestRows(rev, "get", readings) # <<>>
                 /\ reqs[c].reading_id = LatestRows(rev, "get", readings)[1].reading_id

\* over two readings of existing islands, the earlier of the higher island
\* identifier, a query has reported the latest reading and a delete has
\* located the reading of the same identifier
C27_Witness ==
  /\ rev = "integrated"
  /\ ReferencesExist
  /\ \E r1, r2 \in readings :
       /\ r1.reading_id = 1 /\ r2.reading_id = 2
       /\ r1.island_id > r2.island_id
  /\ reqs["c1"].op = "get" /\ reqs["c1"].outcome = "success"
  /\ reqs["c2"].op = "delete" /\ reqs["c2"].pc = "await_delete"
  /\ reqs["c2"].reading_id = 2
  /\ SelectLatestJoined(readings)[1].reading_id = 2

----------------------------------------------------------------------------
(* Claims about the termination of requests *)

\* client c's voice request awaits a call
InFlight(c) ==
  /\ reqs[c].op \in VoiceOps
  /\ reqs[c].pc \notin {"idle", "done"}

\* C28: provided every awaited call returns a result or an error, every voice
\* request is answered in the end, whichever way its handler goes (success,
\* unresolved name, not-found, invalid input, failed call); an answered
\* request carries a spoken response and is answered once: it only retires.
C28_EveryRequestAnswered ==
  /\ \A c \in SoloClients : InFlight(c) ~> (reqs[c].pc = "done")
  /\ [](\A c \in SoloClients :
          /\ (reqs[c].op \in VoiceOps /\ reqs[c].pc = "done")
               => (reqs[c].speak # <<>> /\ reqs[c].outcome # "none")
          /\ (reqs[c].op \in VoiceOps /\ reqs[c].pc # "done")
               => (reqs[c].speak = <<>> /\ reqs[c].outcome = "none"))
  /\ [][\A c \in SoloClients :
          (reqs[c].op \in VoiceOps /\ reqs[c].pc = "done" /\ reqs'[c] # reqs[c])
            => reqs'[c] = IdleReq]_vars

\* the integrated server has answered a save whose sensor slot is no number,
\* the handler having gone the invalid-input way
C28_Witness ==
  /\ rev = "integrated"
  /\ reqs["c1"].op = "save"
  /\ reqs["c1"].pc = "done"
  /\ reqs["c1"].outcome = "invalid_input"
  /\ reqs["c1"].speak # <<>>
  /\ readings # {}

============================================================================
